---- MODULE Spec2Model ----
(***************************************************************************)
(* The Wolf <-> Aimsun TCP bridge of flow/utils/aimsun: the framed message *)
(* codec (TCP_comms.py), the controller side (api.py) and the simulator    *)
(* side dispatcher (run.py, gui/run.py).                                   *)
(*                                                                         *)
(* Python str values are sequences of code points, bytes values are        *)
(* sequences of 0..255.  A TCP connection is a pair of byte streams; each  *)
(* stream is the sequence of the frames written by send() and not yet      *)
(* read, and recv(n) reads at most n bytes from its front.                 *)
(***************************************************************************)
EXTENDS Integers, Sequences, FiniteSets, TLC

VARIABLES
    net,    \* the connections: net[id] = [rx, closed, rst]
    sock,   \* sock[e]: the connection endpoint e reads and writes
    io,     \* io[e]: send_formatted_message / get_formatted_message running at e
    log,    \* history: the frames written so far, in order (SpecStr)
    xfer,   \* history: the string transfer under way (SpecStr)
    variant,            \* which dispatcher Aimsun runs: run.py or gui/run.py
    ctl,                \* the controller: a WolfAimsunAPI and its caller
    sim,                \* the Aimsun process running the dispatcher script
    pending,            \* connections made to the server and not yet accepted
    entered_vehicles,   \* run.py global
    exited_vehicles,    \* run.py global
    sim_reset,          \* run.py global
    hist,               \* history: the steps of the command exchange under way
    since,              \* history: the enter / exit callbacks since the last drain
    env                 \* a MultiEnv and the step call under way (SpecRepeat)

\* the variables of a controller - dispatcher session
sess == <<variant, ctl, sim, pending, entered_vehicles, exited_vehicles,
          sim_reset, hist, since, env>>

\* no environment: the specifications of the bridge have none
NoEnv == [pc |-> "off"]

vars == <<net, sock, io, log, xfer, sess>>

(***************************************************************************)
(* flow/config.py                                                          *)
(***************************************************************************)
PACKET_SIZE == 256
STATRESP_LEN == 32
\* b'StatResp'
STATRESP == <<83, 116, 97, 116, 82, 101, 115, 112>>
\* b'Wolf0'
TRANSFER_DONE == <<87, 111, 108, 102, 48>>
\* b'Wolf1'
TRANSFER_CONTINUE == <<87, 111, 108, 102, 49>>
\* b'load.py_and_generate.py'
NETWORK_LOAD_ID ==
    <<108, 111, 97, 100, 46, 112, 121, 95, 97, 110, 100, 95,
      103, 101, 110, 101, 114, 97, 116, 101, 46, 112, 121>>
\* b'run.py_and_api.py'
RUN_API_ID ==
    <<114, 117, 110, 46, 112, 121, 95, 97, 110, 100, 95, 97, 112, 105, 46, 112, 121>>

(***************************************************************************)
(* Bounds of the model.                                                    *)
(***************************************************************************)
\* strings of SpecStr have up to MaxPackets * PACKET_SIZE + 1 characters
MaxPackets == 2

E == {"ctl", "sim"}
Peer(e) == IF e = "ctl" THEN "sim" ELSE "ctl"

(***************************************************************************)
(* str.encode() and bytes.decode('utf-8')                                  *)
(***************************************************************************)
EncodeCp(c) ==
    IF c < 128 THEN <<c>>
    ELSE IF c < 2048 THEN <<192 + (c \div 64), 128 + (c % 64)>>
    ELSE <<224 + (c \div 4096), 128 + ((c \div 64) % 64), 128 + (c % 64)>>

RECURSIVE EncodeRange(_, _, _)
EncodeRange(s, lo, hi) ==
    IF lo > hi THEN <<>>
    ELSE IF lo = hi THEN EncodeCp(s[lo])
    ELSE LET m == (lo + hi) \div 2
         IN  EncodeRange(s, lo, m) \o EncodeRange(s, m + 1, hi)

Encode(s) == EncodeRange(s, 1, Len(s))

IsCont(b, i) == i <= Len(b) /\ b[i] >= 128 /\ b[i] <= 191

\* the code point starting at b[i] and the number of bytes it takes; n = 0 is
\* UnicodeDecodeError (invalid start byte, invalid continuation byte, or
\* unexpected end of data)
DecodeAt(b, i) ==
    LET b0 == b[i] IN
    IF b0 < 128 THEN [n |-> 1, cp |-> b0]
    ELSE IF b0 >= 194 /\ b0 <= 223 THEN
        IF IsCont(b, i + 1)
        THEN [n |-> 2, cp |-> (b0 - 192) * 64 + (b[i + 1] - 128)]
        ELSE [n |-> 0, cp |-> 0]
    ELSE IF b0 >= 224 /\ b0 <= 239 THEN
        IF IsCont(b, i + 1) /\ IsCont(b, i + 2)
        THEN LET cp == (b0 - 224) * 4096 + (b[i + 1] - 128) * 64 + (b[i + 2] - 128)
             IN  IF cp >= 2048 /\ ~(cp >= 55296 /\ cp <= 57343)
                 THEN [n |-> 3, cp |-> cp]
                 ELSE [n |-> 0, cp |-> 0]
        ELSE [n |-> 0, cp |-> 0]
    ELSE IF b0 >= 240 /\ b0 <= 244 THEN
        IF IsCont(b, i + 1) /\ IsCont(b, i + 2) /\ IsCont(b, i + 3)
        THEN LET cp == (b0 - 240) * 262144 + (b[i + 1] - 128) * 4096
                       + (b[i + 2] - 128) * 64 + (b[i + 3] - 128)
             IN  IF cp >= 65536 /\ cp <= 1114111
                 THEN [n |-> 4, cp |-> cp]
                 ELSE [n |-> 0, cp |-> 0]
        ELSE [n |-> 0, cp |-> 0]
    ELSE [n |-> 0, cp |-> 0]

\* every byte starts a well-formed character or continues the one started at
\* most three bytes before it
IsLead(b, i) == ~(b[i] >= 128 /\ b[i] <= 191)

ValidUtf8(b) ==
    \A i \in 1..Len(b) :
        IF IsLead(b, i) THEN DecodeAt(b, i).n # 0
        ELSE \E j \in {i - 1, i - 2, i - 3} :
                /\ j >= 1
                /\ IsLead(b, j)
                /\ \A k \in (j + 1)..i : ~IsLead(b, k)
                /\ DecodeAt(b, j).n > i - j

\* the code points of the characters that start in b[lo..hi], in order
RECURSIVE DecodeRange(_, _, _)
DecodeRange(b, lo, hi) ==
    IF lo > hi THEN <<>>
    ELSE IF lo = hi THEN (IF IsLead(b, lo) THEN <<DecodeAt(b, lo).cp>> ELSE <<>>)
    ELSE LET m == (lo + hi) \div 2
         IN  DecodeRange(b, lo, m) \o DecodeRange(b, m + 1, hi)

\* ok = FALSE is UnicodeDecodeError
Decode(b) ==
    IF ValidUtf8(b) THEN [ok |-> TRUE, text |-> DecodeRange(b, 1, Len(b))]
    ELSE [ok |-> FALSE, text |-> <<>>]

(***************************************************************************)
(* socket.send and socket.recv on one connection c, seen from endpoint e   *)
(***************************************************************************)
\* hello, acks, readied, by are history: the first message the server read on
\* the connection, the handshake acknowledgements it sent on it, whether a
\* ready token was ever written on it, and the script that connected
NewConn ==
    [rx      |-> [e \in E |-> <<>>],
     closed  |-> [e \in E |-> FALSE],
     rst     |-> [e \in E |-> FALSE],
     fin     |-> [e \in E |-> FALSE],
     hello   |-> <<>>,
     acks    |-> 0,
     readied |-> FALSE,
     by      |-> "run"]

\* recv blocks while nothing has arrived and the peer has not closed
CanRecvOn(c, e) == c.rx[e] # <<>> \/ c.closed[Peer(e)] \/ c.rst[e]

RECURSIVE CatFrames(_, _)
CatFrames(q, k) == IF k = 0 THEN <<>> ELSE CatFrames(q, k - 1) \o q[k].b

\* the stream q without its first m bytes
RECURSIVE DropBytes(_, _)
DropBytes(q, m) ==
    IF m = 0 \/ q = <<>> THEN q
    ELSE IF Len(q[1].b) <= m THEN DropBytes(Tail(q), m - Len(q[1].b))
    ELSE <<[b |-> SubSeq(q[1].b, m + 1, Len(q[1].b)), tag |-> q[1].tag]>>
            \o Tail(q)

\* the outcomes of recv(n): up to n bytes from the front of what has arrived
\* (the first frame, or the first k frames when they arrived together), b''
\* once the peer has closed, or a socket error after a reset; when the reset
\* answers a write to a peer that had closed in order (fin), the end of stream
\* is already there and recv gives b'' or the error, whichever comes first
RecvSet(c, e, n) ==
    LET q == c.rx[e] IN
    IF q # <<>> THEN
        {LET cat == CatFrames(q, k)
             m   == IF Len(cat) < n THEN Len(cat) ELSE n
         IN  [kind |-> "data", b |-> SubSeq(cat, 1, m),
              tags |-> [i \in 1..k |-> q[i].tag],
              c |-> [c EXCEPT !.rx[e] = DropBytes(q, m)]] :
            k \in {j \in 1..Len(q) : j = 1 \/ Len(CatFrames(q, j - 1)) < n}}
    ELSE {[kind |-> k, b |-> <<>>, tags |-> <<>>, c |-> c] :
            k \in IF ~c.rst[e] THEN {"eof"}
                  ELSE IF c.fin[e] THEN {"err", "eof"}
                  ELSE {"err"}}

\* send(bytes): fails after a reset or on a socket closed at this end; the first
\* write to a peer that has closed is accepted and answered with a reset;
\* sending b'' writes nothing
SendOn(c, e, bytes, tag) ==
    IF c.rst[e] \/ c.closed[e] THEN [ok |-> FALSE, c |-> c, ev |-> <<>>]
    ELSE IF c.closed[Peer(e)] THEN
        [ok |-> TRUE, c |-> [c EXCEPT !.rst[e] = TRUE], ev |-> <<>>]
    ELSE IF bytes = <<>> THEN [ok |-> TRUE, c |-> c, ev |-> <<>>]
    ELSE [ok |-> TRUE,
          c  |-> [c EXCEPT !.rx[Peer(e)] = Append(@, [b |-> bytes, tag |-> tag])],
          ev |-> <<[from |-> e, tag |-> tag, n |-> Len(bytes),
                    val |-> IF Len(bytes) <= STATRESP_LEN THEN bytes ELSE <<>>]>>]

Conn(e) == net[sock[e]]
CanRecv(e) == CanRecvOn(Conn(e), e)

\* the frame history is kept while a string transfer is being observed
Logged(ev) == IF xfer.rec THEN log \o ev ELSE log

(***************************************************************************)
(* TCP_comms.py: send_formatted_message and get_formatted_message, 'str'   *)
(***************************************************************************)
IoIdle == [pc |-> "idle", msg |-> <<>>, last |-> FALSE, acc |-> <<>>, err |-> "none"]

\* send_formatted_message(conn, 'str', text) up to the while loop
IoSendStr(text) == [IoIdle EXCEPT !.pc = "s_send", !.msg = Encode(text)]
\* get_formatted_message(conn, 'str') up to the while loop
IoGetStr == [IoIdle EXCEPT !.pc = "g_data"]

Raise(e, kind) == io' = [io EXCEPT ![e].pc = "raised", ![e].err = kind]

\* the loop condition of send_formatted_message
MoreToSend_ge(message) == Len(message) >= PACKET_SIZE
MoreToSend(message) == Len(message) > PACKET_SIZE

\* the token that follows a segment
StatusToken_done(last) == TRANSFER_DONE
StatusToken(last) == IF last THEN TRANSFER_DONE ELSE TRANSFER_CONTINUE

\* the receiver's loop exit test
IsDone_any(token) == token # TRANSFER_CONTINUE
IsDone(token) == token = TRANSFER_DONE

\* conn.send(message[:PACKET_SIZE]) in the loop, or conn.send(message) after it
StrSendSegment(e) ==
    /\ io[e].pc = "s_send"
    /\ LET m    == io[e].msg
           more == MoreToSend(m)
           seg  == IF more THEN SubSeq(m, 1, PACKET_SIZE) ELSE m
           rest == IF more THEN SubSeq(m, PACKET_SIZE + 1, Len(m)) ELSE <<>>
           s    == SendOn(Conn(e), e, seg, "segment")
       IN  IF s.ok
           THEN /\ net' = [net EXCEPT ![sock[e]] = s.c]
                /\ log' = Logged(s.ev)
                /\ io' = [io EXCEPT ![e].msg = rest, ![e].last = ~more,
                                    ![e].pc = "s_ack1"]
           ELSE /\ Raise(e, "socket")
                /\ UNCHANGED <<net, log>>
    /\ UNCHANGED <<sock, xfer, sess>>

\* conn.recv(STATRESP_LEN); conn.send(TRANSFER_CONTINUE or TRANSFER_DONE)
StrSendToken(e) ==
    /\ io[e].pc = "s_ack1"
    /\ CanRecv(e)
    /\ \E r \in RecvSet(Conn(e), e, STATRESP_LEN) :
         IF r.kind = "err"
         THEN /\ Raise(e, "socket")
              /\ UNCHANGED <<net, log>>
         ELSE LET s == SendOn(r.c, e, StatusToken(io[e].last), "token") IN
              IF s.ok
              THEN /\ net' = [net EXCEPT ![sock[e]] = s.c]
                   /\ log' = Logged(s.ev)
                   /\ io' = [io EXCEPT ![e].pc = "s_ack2"]
              ELSE /\ Raise(e, "socket")
                   /\ net' = [net EXCEPT ![sock[e]] = r.c]
                   /\ UNCHANGED log
    /\ UNCHANGED <<sock, xfer, sess>>

\* conn.recv(STATRESP_LEN) after the token: back to the loop test, or return
StrSendAck(e) ==
    /\ io[e].pc = "s_ack2"
    /\ CanRecv(e)
    /\ \E r \in RecvSet(Conn(e), e, STATRESP_LEN) :
         IF r.kind = "err"
         THEN /\ Raise(e, "socket")
              /\ UNCHANGED net
         ELSE /\ net' = [net EXCEPT ![sock[e]] = r.c]
              /\ io' = [io EXCEPT ![e].pc = IF io[e].last THEN "done" ELSE "s_send"]
    /\ UNCHANGED <<sock, log, xfer, sess>>

\* data = conn.recv(PACKET_SIZE); unpacked_data += data.decode('utf-8');
\* conn.send(STATRESP)
StrGetData(e) ==
    /\ io[e].pc = "g_data"
    /\ CanRecv(e)
    /\ \E r \in RecvSet(Conn(e), e, PACKET_SIZE) :
         IF r.kind = "err"
         THEN /\ Raise(e, "socket")
              /\ UNCHANGED <<net, log>>
         ELSE LET d == Decode(r.b) IN
              IF ~d.ok
              THEN /\ Raise(e, "unicode")
                   /\ net' = [net EXCEPT ![sock[e]] = r.c]
                   /\ UNCHANGED log
              ELSE LET s == SendOn(r.c, e, STATRESP, "probe") IN
                   IF s.ok
                   THEN /\ net' = [net EXCEPT ![sock[e]] = s.c]
                        /\ log' = Logged(s.ev)
                        /\ io' = [io EXCEPT ![e].acc = @ \o d.text,
                                            ![e].pc = "g_tok"]
                   ELSE /\ Raise(e, "socket")
                        /\ net' = [net EXCEPT ![sock[e]] = r.c]
                        /\ UNCHANGED log
    /\ UNCHANGED <<sock, xfer, sess>>

\* done = (conn.recv(STATRESP_LEN) == TRANSFER_DONE); conn.send(STATRESP)
StrGetToken(e) ==
    /\ io[e].pc = "g_tok"
    /\ CanRecv(e)
    /\ \E r \in RecvSet(Conn(e), e, STATRESP_LEN) :
         IF r.kind = "err"
         THEN /\ Raise(e, "socket")
              /\ UNCHANGED <<net, log>>
         ELSE LET s == SendOn(r.c, e, STATRESP, "tokenack") IN
              IF s.ok
              THEN /\ net' = [net EXCEPT ![sock[e]] = s.c]
                   /\ log' = Logged(s.ev)
                   /\ io' = [io EXCEPT ![e].pc = IF IsDone(r.b) THEN "done"
                                                 ELSE "g_data"]
              ELSE /\ Raise(e, "socket")
                   /\ net' = [net EXCEPT ![sock[e]] = r.c]
                   /\ UNCHANGED log
    /\ UNCHANGED <<sock, xfer, sess>>

Codec(e) ==
    \/ StrSendSegment(e)
    \/ StrSendToken(e)
    \/ StrSendAck(e)
    \/ StrGetData(e)
    \/ StrGetToken(e)

(***************************************************************************)
(* str(n), int(x), and struct.Struct(format).pack / unpack / size with the *)
(* native byte order and alignment of the hosts the bridge runs on         *)
(* (little-endian, 4-byte int and float, 1-byte bool).  A float is written *)
(* as the integer it equals; a bool as 0 or 1.                             *)
(***************************************************************************)
RECURSIVE Digits(_)
Digits(n) == IF n < 10 THEN <<48 + n>> ELSE Digits(n \div 10) \o <<48 + (n % 10)>>

\* str(n): the same characters as code points and as encoded bytes
IntStr(n) == IF n < 0 THEN <<45>> \o Digits(0 - n) ELSE Digits(n)

IsDigit(c) == c >= 48 /\ c <= 57
IsSpace(c) == c = 32 \/ (c >= 9 /\ c <= 13)

RECURSIVE DigitsValue(_, _)
DigitsValue(s, i) ==
    IF i = 0 THEN 0
    ELSE IF s[i] = 95 THEN DigitsValue(s, i - 1)
    ELSE 10 * DigitsValue(s, i - 1) + (s[i] - 48)

\* stands for every integer of more than nine digits
BigInt == 2147483647

\* int(x) for a str or bytes x: surrounding whitespace, an optional sign, then
\* digits, single underscores allowed between them; ok = FALSE is ValueError
ParseInt(x) ==
    LET body  == {i \in 1..Len(x) : ~IsSpace(x[i])}
        lo    == IF body = {} THEN 1 ELSE CHOOSE i \in body : \A j \in body : i <= j
        hi    == IF body = {} THEN 0 ELSE CHOOSE i \in body : \A j \in body : i >= j
        sgn   == lo <= hi /\ x[lo] \in {43, 45}
        d     == SubSeq(x, IF sgn THEN lo + 1 ELSE lo, hi)
        ok    == /\ d # <<>>
                 /\ IsDigit(d[1])
                 /\ IsDigit(d[Len(d)])
                 /\ \A i \in 1..Len(d) : IsDigit(d[i]) \/ d[i] = 95
                 /\ \A i \in 1..(Len(d) - 1) : ~(d[i] = 95 /\ d[i + 1] = 95)
    IN  IF ~ok THEN [ok |-> FALSE, val |-> 0]
        ELSE IF Len(d) > 9 THEN [ok |-> TRUE, val |-> BigInt]
        ELSE [ok |-> TRUE,
              val |-> IF sgn /\ x[lo] = 45 THEN 0 - DigitsValue(d, Len(d))
                      ELSE DigitsValue(d, Len(d))]

LE4(u) == <<u % 256, (u \div 256) % 256, (u \div 65536) % 256, u \div 16777216>>

\* 'i': two's complement, 32 bits
PackI(v) ==
    IF v >= 0 THEN LE4(v)
    ELSE LET w == (v + 2147483647) + 1
         IN  <<w % 256, (w \div 256) % 256, (w \div 65536) % 256,
               (w \div 16777216) + 128>>

UnpackI(b) ==
    IF b[4] < 128 THEN b[1] + 256 * b[2] + 65536 * b[3] + 16777216 * b[4]
    ELSE ((b[1] + 256 * b[2] + 65536 * b[3] + 16777216 * (b[4] - 128))
            - 2147483647) - 1

RECURSIVE Log2(_)
Log2(k) == IF k < 2 THEN 0 ELSE 1 + Log2(k \div 2)

\* 'f': IEEE 754 single precision, for the floats k.0 with 0 <= k < 2^30; a
\* value with more than 24 significant bits is rounded to the nearest single
\* (ties to even)
PackF(k) ==
    IF k = 0 THEN <<0, 0, 0, 0>>
    ELSE LET e == Log2(k) IN
         IF e <= 23 THEN LE4((127 + e) * 8388608 + (k - 2 ^ e) * 2 ^ (23 - e))
         ELSE LET sh   == e - 23
                  q    == k \div (2 ^ sh)
                  r    == k % (2 ^ sh)
                  half == 2 ^ (sh - 1)
                  up   == r > half \/ (r = half /\ q % 2 = 1)
              IN  LE4((127 + e) * 8388608 + (q - 8388608) + (IF up THEN 1 ELSE 0))

\* the float read back: k for k.0, NotWhole for any other bit pattern
NotWhole == 0 - 1000000
UnpackF(b) ==
    LET top  == b[4] % 128
        bits == b[1] + 256 * b[2] + 65536 * b[3] + 16777216 * top
        e    == (bits \div 8388608) - 127
        m    == bits % 8388608
    IN  IF bits = 0 THEN 0
        ELSE IF b[4] < 128 /\ e >= 0 /\ e <= 23 /\ m % (2 ^ (23 - e)) = 0
             THEN 2 ^ e + m \div (2 ^ (23 - e))
        ELSE IF b[4] < 128 /\ e > 23 /\ e <= 30
             THEN (8388608 + m) * 2 ^ (e - 23)
             ELSE NotWhole

\* '?'
PackB(v) == <<IF v # 0 THEN 1 ELSE 0>>
UnpackB(b) == IF b[1] # 0 THEN 1 ELSE 0

FieldSize(t) == IF t = "?" THEN 1 ELSE 4
Pad(off, t) == (FieldSize(t) - (off % FieldSize(t))) % FieldSize(t)
Zeros(n) == [i \in 1..n |-> 0]

\* struct.Struct(format).size
RECURSIVE SizeFrom(_, _, _)
SizeFrom(fmt, i, off) ==
    IF i > Len(fmt) THEN off
    ELSE SizeFrom(fmt, i + 1, off + Pad(off, fmt[i]) + FieldSize(fmt[i]))
CalcSize(fmt) == SizeFrom(fmt, 1, 0)

PackField(t, v) == IF t = "i" THEN PackI(v) ELSE IF t = "f" THEN PackF(v) ELSE PackB(v)

\* packer.pack(*values); struct.error unless there is one value per field
RECURSIVE PackFrom(_, _, _, _)
PackFrom(fmt, vals, i, acc) ==
    IF i > Len(fmt) THEN acc
    ELSE PackFrom(fmt, vals, i + 1,
                  acc \o Zeros(Pad(Len(acc), fmt[i])) \o PackField(fmt[i], vals[i]))
Pack(fmt, vals) ==
    IF Len(vals) = Len(fmt)
    THEN [ok |-> TRUE, b |-> PackFrom(fmt, vals, 1, <<>>)]
    ELSE [ok |-> FALSE, b |-> <<>>]

UnpackField(t, b) ==
    IF t = "i" THEN UnpackI(b) ELSE IF t = "f" THEN UnpackF(b) ELSE UnpackB(b)

RECURSIVE UnpackFrom(_, _, _, _)
UnpackFrom(fmt, b, i, off) ==
    IF i > Len(fmt) THEN <<>>
    ELSE LET at == off + Pad(off, fmt[i])
         IN  <<UnpackField(fmt[i], SubSeq(b, at + 1, at + FieldSize(fmt[i])))>>
                \o UnpackFrom(fmt, b, i + 1, at + FieldSize(fmt[i]))

\* unpacker.unpack(data); struct.error unless data has exactly the size
Unpack(fmt, b) ==
    IF Len(b) = CalcSize(fmt)
    THEN [ok |-> TRUE, vals |-> UnpackFrom(fmt, b, 1, 0)]
    ELSE [ok |-> FALSE, vals |-> <<>>]

\* the formats of send_formatted_message / get_formatted_message: None,
\* 'str', 'dict', or a struct format given as the sequence of its fields
FNone == [k |-> "none", f |-> <<>>]
FStr == [k |-> "str", f |-> <<>>]
FDict == [k |-> "dict", f |-> <<>>]
F(fields) == [k |-> "struct", f |-> fields]

(***************************************************************************)
(* Python values as the messages carry them: [t, s, e] with t the type, s  *)
(* the number or the code points of a str, and e the elements of a list or *)
(* tuple or the items of a dict in insertion order.                        *)
(***************************************************************************)
VInt(n) == [t |-> "int", s |-> <<n>>, e |-> <<>>]
VFloat(k) == [t |-> "float", s |-> <<k>>, e |-> <<>>]
VBool(b) == [t |-> "bool", s |-> <<IF b THEN 1 ELSE 0>>, e |-> <<>>]
VNone == [t |-> "None", s |-> <<>>, e |-> <<>>]
VStr(s) == [t |-> "str", s |-> s, e |-> <<>>]
VList(elems) == [t |-> "list", s |-> <<>>, e |-> elems]
VTuple(elems) == [t |-> "tuple", s |-> <<>>, e |-> elems]
VDict(items) == [t |-> "dict", s |-> <<>>, e |-> items]
\* key: val in a dict
Item(key, val) == [t |-> "item", s |-> key, e |-> <<val>>]

HasKey(items, key) == \E i \in 1..Len(items) : items[i].s = key
Lookup(items, key) ==
    items[CHOOSE i \in 1..Len(items) : items[i].s = key].e[1]

\* d[key] = val: a key the dict has keeps its place
SetItem_keep(items, key, val) ==
    IF HasKey(items, key) THEN items ELSE Append(items, Item(key, val))
SetItem(items, key, val) ==
    IF HasKey(items, key)
    THEN [i \in 1..Len(items) |->
            IF items[i].s = key THEN Item(key, val) ELSE items[i]]
    ELSE Append(items, Item(key, val))

\* message.update(d)
RECURSIVE UpdateFrom(_, _, _)
UpdateFrom(items, d, i) ==
    IF i > Len(d) THEN items
    ELSE UpdateFrom(SetItem(items, d[i].s, d[i].e[1]), d, i + 1)
Update(items, d) == UpdateFrom(items, d, 1)

\* message = {}; for d in values: message.update(d)
RECURSIVE Combine(_, _)
Combine(values, n) ==
    IF n = 0 THEN <<>> ELSE Update(Combine(values, n - 1), values[n].e)

(***************************************************************************)
(* json.dumps(obj) with its defaults (ensure_ascii, separators ', ' and    *)
(* ': ') and json.loads(text).                                             *)
(***************************************************************************)
HexDigit(n) == IF n < 10 THEN 48 + n ELSE 87 + n
Hex4(n) ==
    <<HexDigit(n \div 4096), HexDigit((n \div 256) % 16),
      HexDigit((n \div 16) % 16), HexDigit(n % 16)>>
\* \uXXXX
UEscape(n) == <<92, 117>> \o Hex4(n)

\* one character inside a JSON string (ESCAPE_ASCII of json.encoder)
EscapeChar_raw(c) == <<c>>
EscapeChar(c) ==
    IF c = 34 THEN <<92, 34>>
    ELSE IF c = 92 THEN <<92, 92>>
    ELSE IF c = 10 THEN <<92, 110>>
    ELSE IF c = 13 THEN <<92, 114>>
    ELSE IF c = 9 THEN <<92, 116>>
    ELSE IF c = 8 THEN <<92, 98>>
    ELSE IF c = 12 THEN <<92, 102>>
    ELSE IF c >= 32 /\ c < 127 THEN <<c>>
    ELSE IF c < 65536 THEN UEscape(c)
    ELSE UEscape(55296 + ((c - 65536) \div 1024))
            \o UEscape(56320 + ((c - 65536) % 1024))

RECURSIVE EscapeRange(_, _, _)
EscapeRange(s, lo, hi) ==
    IF lo > hi THEN <<>>
    ELSE IF lo = hi THEN EscapeChar(s[lo])
    ELSE LET mid == (lo + hi) \div 2
         IN  EscapeRange(s, lo, mid) \o EscapeRange(s, mid + 1, hi)

DumpsStr(s) == <<34>> \o EscapeRange(s, 1, Len(s)) \o <<34>>

RECURSIVE JoinText(_, _)
JoinText(parts, sep) ==
    IF parts = <<>> THEN <<>>
    ELSE IF Len(parts) = 1 THEN parts[1]
    ELSE parts[1] \o sep \o JoinText(Tail(parts), sep)

\* float.__repr__ of k.0
FloatRepr(k) == IntStr(k) \o <<46, 48>>

RECURSIVE Dumps(_)
Dumps(x) ==
    IF x.t = "int" THEN IntStr(x.s[1])
    ELSE IF x.t = "float" THEN FloatRepr(x.s[1])
    ELSE IF x.t = "bool"
    THEN (IF x.s[1] = 1 THEN <<116, 114, 117, 101>>
          ELSE <<102, 97, 108, 115, 101>>)
    ELSE IF x.t = "None" THEN <<110, 117, 108, 108>>
    ELSE IF x.t = "str" THEN DumpsStr(x.s)
    ELSE IF x.t \in {"list", "tuple"}
    THEN <<91>> \o JoinText([i \in 1..Len(x.e) |-> Dumps(x.e[i])], <<44, 32>>)
              \o <<93>>
    ELSE <<123>>
            \o JoinText([i \in 1..Len(x.e) |->
                            DumpsStr(x.e[i].s) \o <<58, 32>>
                                \o Dumps(x.e[i].e[1])],
                        <<44, 32>>)
            \o <<125>>

\* a parse result: the value read and the position after it; ok = FALSE is
\* json.JSONDecodeError
Parsed(val, next) == [ok |-> TRUE, val |-> val, next |-> next]
BadJson == [ok |-> FALSE, val |-> VNone, next |-> 0]

IsWs(c) == c \in {32, 9, 10, 13}
\* the first position from i on that holds no whitespace
SkipWs(t, i) ==
    LET at == {j \in i..Len(t) : ~IsWs(t[j])}
    IN  IF at = {} THEN Len(t) + 1 ELSE CHOOSE j \in at : \A k \in at : j <= k

HexValue(c) ==
    IF c >= 48 /\ c <= 57 THEN c - 48
    ELSE IF c >= 97 /\ c <= 102 THEN c - 87
    ELSE IF c >= 65 /\ c <= 70 THEN c - 55
    ELSE 0 - 1
\* the value of the four hex digits at t[i..i+3], or -1
Hex4Value(t, i) ==
    IF i + 3 > Len(t) \/ \E j \in i..(i + 3) : HexValue(t[j]) < 0 THEN 0 - 1
    ELSE 4096 * HexValue(t[i]) + 256 * HexValue(t[i + 1])
            + 16 * HexValue(t[i + 2]) + HexValue(t[i + 3])

\* the character a backslash followed by c stands for, or -1
Unescaped(c) ==
    IF c \in {34, 92, 47} THEN c
    ELSE IF c = 98 THEN 8
    ELSE IF c = 102 THEN 12
    ELSE IF c = 110 THEN 10
    ELSE IF c = 114 THEN 13
    ELSE IF c = 116 THEN 9
    ELSE 0 - 1

\* py_scanstring from position i, the first position after the opening quote;
\* the steps of its loop take what the step before found as their parameters
RECURSIVE ScanString(_, _, _)
RECURSIVE StrChunk(_, _, _)
RECURSIVE StrEscape(_, _, _, _)

\* the next quote, backslash or control character from i on, or 0
Terminator(t, i) ==
    IF \A j \in i..Len(t) : ~(t[j] \in {34, 92} \/ t[j] < 32) THEN 0
    ELSE CHOOSE j \in i..Len(t) :
             /\ t[j] \in {34, 92} \/ t[j] < 32
             /\ \A k \in i..(j - 1) : ~(t[k] \in {34, 92} \/ t[k] < 32)

\* the low surrogate written after the \uXXXX at position j, or -1
LowSurrogate(t, j) ==
    IF j + 7 <= Len(t) /\ t[j + 6] = 92 /\ t[j + 7] = 117
    THEN Hex4Value(t, j + 8) ELSE 0 - 1

ScanString(t, i, acc) ==
    IF Terminator(t, i) = 0 THEN BadJson
    ELSE StrChunk(t, Terminator(t, i),
                  acc \o SubSeq(t, i, Terminator(t, i) - 1))

\* the terminator at position j, after the content text
StrChunk(t, j, text) ==
    IF t[j] = 34 THEN Parsed(VStr(text), j + 1)
    ELSE IF t[j] < 32 \/ j = Len(t) THEN BadJson
    ELSE IF t[j + 1] # 117
    THEN (IF Unescaped(t[j + 1]) < 0 THEN BadJson
          ELSE ScanString(t, j + 2, Append(text, Unescaped(t[j + 1]))))
    ELSE StrEscape(t, j, text, Hex4Value(t, j + 2))

\* the \uXXXX escape at position j, of value u
StrEscape(t, j, text, u) ==
    IF u < 0 THEN BadJson
    ELSE IF /\ u >= 55296 /\ u <= 56319
            /\ LowSurrogate(t, j) >= 56320 /\ LowSurrogate(t, j) <= 57343
    THEN ScanString(t, j + 12,
             Append(text, 65536 + (u - 55296) * 1024
                              + (LowSurrogate(t, j) - 56320)))
    ELSE ScanString(t, j + 6, Append(text, u))

\* the first position from i on that holds no digit
DigitsEnd(t, i) ==
    IF \A j \in i..Len(t) : IsDigit(t[j]) THEN Len(t) + 1
    ELSE CHOOSE j \in i..Len(t) :
             ~IsDigit(t[j]) /\ \A k \in i..(j - 1) : IsDigit(t[k])

\* the number of sign neg whose integer part is t[from..end-1]
NumberAt(t, neg, int, end) ==
    IF int = <<>> \/ (Len(int) > 1 /\ int[1] = 48) THEN BadJson
    ELSE IF ~(end < Len(t) /\ t[end] = 46 /\ IsDigit(t[end + 1]))
    THEN Parsed(VInt((IF neg THEN 0 - 1 ELSE 1)
                     * (IF Len(int) > 9 THEN BigInt
                        ELSE DigitsValue(int, Len(int)))), end)
    ELSE IF \A j \in (end + 1)..(DigitsEnd(t, end + 1) - 1) : t[j] = 48
    THEN Parsed(VFloat((IF neg THEN 0 - 1 ELSE 1)
                       * (IF Len(int) > 9 THEN BigInt
                          ELSE DigitsValue(int, Len(int)))),
                DigitsEnd(t, end + 1))
    ELSE Parsed(VFloat(NotWhole), DigitsEnd(t, end + 1))

NumberFrom(t, neg, from) ==
    NumberAt(t, neg, SubSeq(t, from, DigitsEnd(t, from) - 1), DigitsEnd(t, from))

\* a number at position i: -?digits(.digits)?; whole floats only
ScanNumber(t, i) ==
    IF t[i] = 45 THEN NumberFrom(t, TRUE, i + 1) ELSE NumberFrom(t, FALSE, i)

Literal(t, i, word) ==
    i + Len(word) - 1 <= Len(t) /\ SubSeq(t, i, i + Len(word) - 1) = word

\* scan_once of json.scanner, with JSONArray and JSONObject; the steps of a
\* container take what the step before found as their parameters
RECURSIVE ScanValue(_, _)
RECURSIVE ScanArray(_, _, _)
RECURSIVE ArrayOpen(_, _)
RECURSIVE ArrayValue(_, _, _)
RECURSIVE ArrayNext(_, _, _)
RECURSIVE ScanObject(_, _, _)
RECURSIVE ObjectOpen(_, _)
RECURSIVE ObjectKey(_, _, _)
RECURSIVE ObjectColon(_, _, _, _)
RECURSIVE ObjectValue(_, _, _, _)
RECURSIVE ObjectNext(_, _, _)
ScanValue(t, i) ==
    IF i > Len(t) THEN BadJson
    ELSE IF t[i] = 34 THEN ScanString(t, i + 1, <<>>)
    ELSE IF t[i] = 123 THEN ObjectOpen(t, SkipWs(t, i + 1))
    ELSE IF t[i] = 91 THEN ArrayOpen(t, SkipWs(t, i + 1))
    ELSE IF Literal(t, i, <<110, 117, 108, 108>>) THEN Parsed(VNone, i + 4)
    ELSE IF Literal(t, i, <<116, 114, 117, 101>>) THEN Parsed(VBool(TRUE), i + 4)
    ELSE IF Literal(t, i, <<102, 97, 108, 115, 101>>)
    THEN Parsed(VBool(FALSE), i + 5)
    ELSE IF t[i] = 45 \/ IsDigit(t[i]) THEN ScanNumber(t, i)
    ELSE BadJson

\* after the opening bracket: the empty list, or the elements
ArrayOpen(t, j) ==
    IF j <= Len(t) /\ t[j] = 93 THEN Parsed(VList(<<>>), j + 1)
    ELSE ScanArray(t, j, <<>>)

\* the elements from position i on, up to the closing bracket
ScanArray(t, i, acc) == ArrayValue(t, acc, ScanValue(t, i))

ArrayValue(t, acc, e) ==
    IF ~e.ok THEN BadJson
    ELSE ArrayNext(t, Append(acc, e.val), SkipWs(t, e.next))

ArrayNext(t, elems, j) ==
    IF j > Len(t) THEN BadJson
    ELSE IF t[j] = 93 THEN Parsed(VList(elems), j + 1)
    ELSE IF t[j] = 44 THEN ScanArray(t, SkipWs(t, j + 1), elems)
    ELSE BadJson

\* after the opening brace: the empty dict, or the items
ObjectOpen(t, j) ==
    IF j <= Len(t) /\ t[j] = 125 THEN Parsed(VDict(<<>>), j + 1)
    ELSE ScanObject(t, j, <<>>)

\* the "key": value items from position i on, up to the closing brace
ScanObject(t, i, acc) ==
    IF i > Len(t) \/ t[i] # 34 THEN BadJson
    ELSE ObjectKey(t, acc, ScanString(t, i + 1, <<>>))

ObjectKey(t, acc, k) ==
    IF ~k.ok THEN BadJson
    ELSE ObjectColon(t, acc, k.val.s, SkipWs(t, k.next))

ObjectColon(t, acc, key, c) ==
    IF c > Len(t) \/ t[c] # 58 THEN BadJson
    ELSE ObjectValue(t, acc, key, ScanValue(t, SkipWs(t, c + 1)))

ObjectValue(t, acc, key, e) ==
    IF ~e.ok THEN BadJson
    ELSE ObjectNext(t, SetItem(acc, key, e.val), SkipWs(t, e.next))

ObjectNext(t, items, j) ==
    IF j > Len(t) THEN BadJson
    ELSE IF t[j] = 125 THEN Parsed(VDict(items), j + 1)
    ELSE IF t[j] = 44 THEN ScanObject(t, SkipWs(t, j + 1), items)
    ELSE BadJson

\* the whole text must be one value
WholeText(text, r) ==
    IF r.ok /\ SkipWs(text, r.next) > Len(text) THEN r ELSE BadJson

\* json.loads(text)
Loads(text) == WholeText(text, ScanValue(text, SkipWs(text, 1)))

\* the value with the coercions json.dumps does: a tuple is written as a list
RECURSIVE AsJson(_)
AsJson(x) ==
    IF x.t \in {"list", "tuple"}
    THEN VList([i \in 1..Len(x.e) |-> AsJson(x.e[i])])
    ELSE IF x.t = "dict"
    THEN VDict([i \in 1..Len(x.e) |-> Item(x.e[i].s, AsJson(x.e[i].e[1]))])
    ELSE x

\* Python's == on two values (dicts whatever the order of their items)
RECURSIVE PyEq(_, _)
PyEq(a, b) ==
    IF {a.t, b.t} \subseteq {"int", "float", "bool"} THEN a.s = b.s
    ELSE IF a.t # b.t THEN FALSE
    ELSE IF a.t = "dict"
    THEN /\ \A i \in 1..Len(a.e) :
              \E j \in 1..Len(b.e) :
                  a.e[i].s = b.e[j].s /\ PyEq(a.e[i].e[1], b.e[j].e[1])
         /\ \A j \in 1..Len(b.e) : HasKey(a.e, b.e[j].s)
    ELSE IF a.t \in {"list", "tuple"}
    THEN /\ Len(a.e) = Len(b.e)
         /\ \A i \in 1..Len(a.e) : PyEq(a.e[i], b.e[i])
    ELSE a.s = b.s

(***************************************************************************)
(* flow/utils/aimsun/constants.py: the command codes shared by both ends,  *)
(* a closed enumeration of distinct integers.                              *)
(***************************************************************************)
OpNames ==
    <<"SIMULATION_STEP", "SIMULATION_RESET", "SIMULATION_TERMINATE",
      "GET_EDGE_NAME", "ADD_VEHICLE", "REMOVE_VEHICLE", "VEH_SET_SPEED",
      "VEH_SET_LANE", "VEH_SET_ROUTE", "VEH_SET_COLOR", "VEH_GET_ENTERED_IDS",
      "VEH_GET_EXITED_IDS", "VEH_GET_TYPE_ID", "VEH_GET_STATIC",
      "VEH_GET_DYNAMIC", "VEH_GET_ACC", "VEH_GET_TRACKING", "VEH_GET_LEADER",
      "VEH_GET_FOLLOWER", "VEH_GET_NEXT_SECTION", "VEH_GET_ROUTE",
      "VEH_GET_TYPE_NAME", "VEH_GET_LENGTH", "VEH_SET_TRACKED",
      "VEH_SET_NO_TRACKED", "TL_GET_IDS", "TL_SET_STATE", "TL_GET_STATE">>

OpCode(name) == (CHOOSE i \in 1..Len(OpNames) : OpNames[i] = name) - 1
Ops(names) == {OpCode(n) : n \in names}

(***************************************************************************)
(* The values the caller and the simulator supply.                         *)
(***************************************************************************)
VehIds == {1, 2}
\* 'e1'
ShortName == <<101, 49>>
\* 'Car'
CarName == <<67, 97, 114>>
\* an edge name longer than one packet
LongName == [i \in 1..(PACKET_SIZE + 1) |-> 97]
EdgeNames == {ShortName, LongName}

\* len(INFOS_ATTR_BY_INDEX)
NUM_ATTRS == 21
\* info bitmaps with at least one '1': one float; a float and an int
BitSets == {{1}, {9, 14}}
Bitmap(bits) == [i \in 1..NUM_ATTRS |-> IF i \in bits THEN 49 ELSE 48]

\* the format get_vehicle_tracking_info and the tracking branch build from a
\* bitmap: 'f' for indices 0..12, 'i' after
RECURSIVE BitmapFormat(_, _)
BitmapFormat(bm, i) ==
    IF i > Len(bm) THEN <<>>
    ELSE (IF bm[i] = 49 THEN <<IF i - 1 <= 12 THEN "f" ELSE "i">> ELSE <<>>)
            \o BitmapFormat(bm, i + 1)

(***************************************************************************)
(* api.py: the command each WolfAimsunAPI method issues.  set_route,       *)
(* set_color and get_route raise NotImplementedError before any command.   *)
(***************************************************************************)
M(method, opname, inf, vals, outf) ==
    [method |-> method, op |-> OpCode(opname), inf |-> inf, vals |-> vals,
     outf |-> outf]

AddVehicleFormat == <<"i", "i", "i", "f", "f", "i", "?">>
StaticFormat ==
    <<"i", "i", "i", "f", "f", "f", "f", "f", "f", "f",
      "f", "f", "f", "i", "i", "i", "?", "f", "f", "f",
      "f", "f", "i", "i", "i", "i">>

\* add_vehicle(edge, lane, type_id, pos, speed, next_section, tracking) once
\* type_id is an integer
AddVehicle(type_id) ==
    M("add_vehicle", "ADD_VEHICLE", F(AddVehicleFormat),
      <<330, 0, type_id, 5, 10, 0 - 1, 1>>, F(<<"i">>))

TrackingParam(veh_id, bm, tracked) ==
    IntStr(veh_id) \o <<58>> \o bm \o <<IF tracked THEN 49 ELSE 48>>

\* the names of the keys, as text
T_veh_id == <<118, 101, 104, 95, 105, 100>>
T_tracked == <<116, 114, 97, 99, 107, 101, 100>>
T_keys == <<107, 101, 121, 115>>
T_report == <<114, 101, 112, 111, 114, 116>>
T_idVeh == <<105, 100, 86, 101, 104>>
T_type == <<116, 121, 112, 101>>
T_length == <<108, 101, 110, 103, 116, 104>>
T_idSection == <<105, 100, 83, 101, 99, 116, 105, 111, 110>>
T_accType == <<97, 99, 99, 84, 121, 112, 101>>
\* a name no struct has
T_colour == <<99, 111, 108, 111, 117, 114>>

\* the request of the branches that answer with a dict: veh_id, tracked and
\* the keys wanted (None for all of them)
Config(veh_id, tracked, keys) ==
    VDict(<<Item(T_veh_id, VInt(veh_id)), Item(T_tracked, VBool(tracked)),
            Item(T_keys, keys)>>)

\* _send_command(ac.VEH_GET_STATIC, config, in_format='dict',
\* out_format='dict'); vals is the text json.dumps makes of config
DictCalls ==
    {M("_send_command", "VEH_GET_STATIC", FDict, Dumps(Config(1, FALSE, keys)),
       FDict) :
        keys \in {VNone, VList(<<VStr(T_idVeh), VStr(T_colour)>>)}}

ApiCalls ==
    {M("simulation_step", "SIMULATION_STEP", FNone, <<>>, FNone),
     M("simulation_reset", "SIMULATION_RESET", FNone, <<>>, FNone),
     M("stop_simulation", "SIMULATION_TERMINATE", FNone, <<>>, FNone),
     AddVehicle(1),
     M("add_vehicle", "VEH_GET_TYPE_ID", FStr, CarName, F(<<"i">>)),
     M("remove_vehicle", "REMOVE_VEHICLE", F(<<"i">>), <<1>>, F(<<"i">>)),
     M("set_speed", "VEH_SET_SPEED", F(<<"i", "f">>), <<1, 10>>, F(<<"i">>)),
     M("apply_lane_change", "VEH_SET_LANE", F(<<"i", "i">>), <<1, 1>>,
       F(<<"i">>)),
     M("get_entered_ids", "VEH_GET_ENTERED_IDS", FNone, <<>>, FStr),
     M("get_exited_ids", "VEH_GET_EXITED_IDS", FNone, <<>>, FStr),
     M("get_vehicle_type_id", "VEH_GET_TYPE_ID", FStr, CarName, F(<<"i">>)),
     M("get_vehicle_static_info", "VEH_GET_STATIC", F(<<"i">>), <<1>>,
       F(StaticFormat)),
     M("get_vehicle_leader", "VEH_GET_LEADER", F(<<"i">>), <<1>>, F(<<"i">>)),
     M("get_vehicle_follower", "VEH_GET_FOLLOWER", F(<<"i">>), <<1>>,
       F(<<"i">>)),
     M("get_next_section", "VEH_GET_NEXT_SECTION", F(<<"i", "i">>), <<1, 330>>,
       F(<<"i">>)),
     M("get_vehicle_type_name", "VEH_GET_TYPE_NAME", F(<<"i">>), <<1>>, FStr),
     M("get_vehicle_length", "VEH_GET_LENGTH", F(<<"i">>), <<1>>, F(<<"f">>)),
     M("set_vehicle_tracked", "VEH_SET_TRACKED", F(<<"i">>), <<1>>,
       F(<<"i">>)),
     M("set_vehicle_no_tracked", "VEH_SET_NO_TRACKED", F(<<"i">>), <<1>>,
       F(<<"i">>)),
     M("get_traffic_light_ids", "TL_GET_IDS", FNone, <<>>, FStr),
     M("set_traffic_light_state", "TL_SET_STATE", F(<<"i", "i", "i">>),
       <<1, 0, 1>>, F(<<"i">>)),
     M("get_traffic_light_state", "TL_GET_STATE", F(<<"i">>), <<1>>,
       F(<<"i">>))}
    \cup {M("get_edge_name", "GET_EDGE_NAME", FStr, name, F(<<"i">>)) :
            name \in EdgeNames}
    \cup {M("get_vehicle_tracking_info", "VEH_GET_TRACKING", FStr,
            TrackingParam(1, Bitmap(bits), tracked),
            F(BitmapFormat(Bitmap(bits), 1))) :
            bits \in BitSets, tracked \in BOOLEAN}
    \cup DictCalls

\* str.split(sep) and sep.join(parts)
RECURSIVE Split(_, _)
Split(s, sep) ==
    IF \A i \in 1..Len(s) : s[i] # sep THEN <<s>>
    ELSE LET i == CHOOSE i \in 1..Len(s) :
                    s[i] = sep /\ \A j \in 1..(i - 1) : s[j] # sep
         IN  <<SubSeq(s, 1, i - 1)>> \o Split(SubSeq(s, i + 1, Len(s)), sep)

RECURSIVE Join(_, _)
Join(parts, sep) ==
    IF parts = <<>> THEN <<>>
    ELSE IF Len(parts) = 1 THEN parts[1]
    ELSE parts[1] \o <<sep>> \o Join(Tail(parts), sep)

\* ':'.join([str(veh) for veh in ids]), or '-1' for an empty list
IdsText_first(ids) ==
    IF ids = <<>> THEN IntStr(0 - 1) ELSE IntStr(ids[1])
IdsText(ids) ==
    IF ids = <<>> THEN IntStr(0 - 1)
    ELSE Join([i \in 1..Len(ids) |-> IntStr(ids[i])], 58)

(***************************************************************************)
(* api.py: what a method returns from the message _send_command returned.  *)
(* A returned value is [k, v]: its kind (or the exception raised) and its  *)
(* content.                                                                *)
(***************************************************************************)
NoRet == [k |-> "pending", v |-> <<>>]
RetNone == [k |-> "None", v |-> <<>>]
RetInt(n) == [k |-> "int", v |-> <<n>>]
RetErr(kind) == [k |-> kind, v |-> <<>>]
Errors == {"socket.error", "struct.error", "ValueError", "UnicodeDecodeError"}
IsError(ret) == ret.k \in Errors

\* [] for '-1', else [int(v) for v in text.split(':')]
ParseIds(text) ==
    IF text = IntStr(0 - 1) THEN [k |-> "list", v |-> <<>>]
    ELSE LET parts == Split(text, 58) IN
         IF \A i \in 1..Len(parts) : ParseInt(parts[i]).ok
         THEN [k |-> "list", v |-> [i \in 1..Len(parts) |-> ParseInt(parts[i]).val]]
         ELSE RetErr("ValueError")

\* the InfVeh of get_vehicle_tracking_info: attribute i is <<value>> when bit
\* i of the bitmap is set and <<>> (None) otherwise
InfVehOf(bm, info) ==
    [k |-> "InfVeh",
     v |-> [i \in 1..NUM_ATTRS |->
                IF bm[i] = 49
                THEN <<info[Cardinality({j \in 1..i : bm[j] = 49})]>>
                ELSE <<>>]]

Result(call, raw) ==
    LET m == call.method IN
    IF m \in {"simulation_step", "simulation_reset", "stop_simulation",
              "remove_vehicle", "set_speed", "set_vehicle_tracked",
              "set_vehicle_no_tracked", "set_traffic_light_state"}
    THEN RetNone
    ELSE IF m \in {"get_entered_ids", "get_exited_ids", "get_traffic_light_ids"}
    THEN ParseIds(raw)
    ELSE IF m \in {"get_vehicle_leader", "get_vehicle_follower"}
    THEN (IF raw[1] >= 0 THEN RetInt(raw[1]) ELSE RetNone)
    ELSE IF m = "apply_lane_change" THEN [k |-> "tuple", v |-> raw]
    ELSE IF m = "get_vehicle_type_name" THEN [k |-> "str", v |-> raw]
    ELSE IF m = "get_vehicle_static_info" THEN [k |-> "StaticInfVeh", v |-> raw]
    ELSE IF m = "_send_command"
    THEN (IF Loads(raw).ok THEN [k |-> "dict", v |-> raw]
          ELSE RetErr("ValueError"))
    ELSE IF m = "get_vehicle_tracking_info"
    THEN InfVehOf(SubSeq(call.vals, Len(call.vals) - NUM_ATTRS,
                         Len(call.vals) - 1), raw)
    ELSE RetInt(raw[1])

(***************************************************************************)
(* run.py, gui/run.py: the branches of simulation_step.  A branch reads    *)
(* its inputs in order (FNone is a bare conn.recv(STATRESP_LEN)) and sends *)
(* one result, or none.                                                    *)
(***************************************************************************)
\* the struct format the tracking branch builds from the bitmap it received
FBitmap == [k |-> "bitmap", f |-> <<>>]

Br(reads, outf) == [known |-> TRUE, reads |-> reads, outf |-> outf]

Branch(v, c) ==
    IF c \in Ops({"SIMULATION_STEP", "SIMULATION_RESET", "SIMULATION_TERMINATE"})
    THEN Br(<<FNone>>, FNone)
    ELSE IF c \in Ops({"GET_EDGE_NAME", "VEH_GET_TYPE_ID"})
    THEN Br(<<FStr>>, F(<<"i">>))
    ELSE IF c = OpCode("ADD_VEHICLE")
    THEN Br(<<F(AddVehicleFormat)>>, F(<<"i">>))
    ELSE IF c \in Ops({"REMOVE_VEHICLE", "VEH_GET_LEADER", "VEH_GET_FOLLOWER",
                       "VEH_SET_TRACKED", "VEH_SET_NO_TRACKED", "TL_GET_STATE"})
    THEN Br(<<F(<<"i">>)>>, F(<<"i">>))
    ELSE IF c = OpCode("VEH_SET_SPEED")
    THEN Br(<<F(<<"i", "f">>)>>, F(<<"i">>))
    ELSE IF c \in Ops({"VEH_SET_LANE", "VEH_GET_NEXT_SECTION"})
    THEN Br(<<F(<<"i", "i">>)>>, F(<<"i">>))
    ELSE IF c = OpCode("VEH_SET_ROUTE")
    THEN Br(<<FNone>>, F(<<"i">>))
    ELSE IF c = OpCode("VEH_SET_COLOR")
    THEN Br(<<F(<<"i", "i", "i", "i">>), FNone>>, F(<<"i">>))
    ELSE IF c \in Ops({"VEH_GET_ENTERED_IDS", "VEH_GET_EXITED_IDS", "TL_GET_IDS"})
    THEN Br(<<FNone>>, FStr)
    ELSE IF c = OpCode("VEH_GET_STATIC")
    THEN Br(<<FDict>>, FDict)
    ELSE IF v = "console" /\ c \in Ops({"VEH_GET_DYNAMIC", "VEH_GET_ACC"})
    THEN Br(<<FDict>>, FDict)
    ELSE IF v = "gui" /\ c = OpCode("VEH_GET_TRACKING")
    THEN Br(<<FStr>>, FBitmap)
    ELSE IF c = OpCode("VEH_GET_ROUTE")
    THEN Br(<<>>, FNone)
    ELSE IF c = OpCode("VEH_GET_TYPE_NAME")
    THEN Br(<<F(<<"i">>)>>, FStr)
    ELSE IF c = OpCode("VEH_GET_LENGTH")
    THEN Br(<<F(<<"i">>)>>, F(<<"f">>))
    ELSE IF c = OpCode("TL_SET_STATE")
    THEN Br(<<F(<<"i", "i", "i">>)>>, F(<<"i">>))
    ELSE [known |-> FALSE, reads |-> <<>>, outf |-> F(<<"i">>)]

\* the value of the else branch
UNKNOWN_REPLY == 0 - 1001

\* the commands that set step_done
LoopExits_noreset(c) == c \in Ops({"SIMULATION_STEP", "SIMULATION_TERMINATE"})
LoopExits(c) ==
    c \in Ops({"SIMULATION_STEP", "SIMULATION_RESET", "SIMULATION_TERMINATE"})

\* what a branch computes from the simulator: crash is an exception that
\* simulation_step does not catch; vals go out under fmt, text as 'str'
Ans(fmt, vals) ==
    [crash |-> FALSE, err |-> "none", fmt |-> fmt, vals |-> vals, text |-> <<>>,
     fault |-> FALSE]
AnsText(text) ==
    [crash |-> FALSE, err |-> "none", fmt |-> <<>>, vals |-> <<>>, text |-> text,
     fault |-> FALSE]
AnsCrash(kind) ==
    [crash |-> TRUE, err |-> kind, fmt |-> <<>>, vals |-> <<>>, text |-> <<>>,
     fault |-> FALSE]

\* the simulator's tracking data, in the order of the branch's data tuple
TrackData == [i \in 1..NUM_ATTRS |-> 10 + i]

\* output.append(data[i]) for the bits set
RECURSIVE Selected(_, _, _)
Selected(data, bm, i) ==
    IF i > Len(bm) THEN <<>>
    ELSE (IF bm[i] = 49 THEN <<data[i]>> ELSE <<>>) \o Selected(data, bm, i + 1)

\* the query the branch makes: AKIVehTrackedGetInf(veh_id) if tracked else
\* AKIVehGetInf(veh_id), tracked being a str
TrackedQuery(tracked) ==
    IF tracked # <<>> THEN "AKIVehTrackedGetInf" ELSE "AKIVehGetInf"

NoRead(err) == [err |-> err, veh_id |-> 0, info_bitmap |-> <<>>, tracked |-> <<>>]

\* gui/run.py, the VEH_GET_TRACKING branch: what it decodes from the
\* parameter string it read; tracked is the str info_bitmap[-1]
TrackingRead(text) ==
    LET cut   == SubSeq(text, 1, Len(text) - 1)
        parts == Split(cut, 58)
    IN  IF cut = <<>> THEN NoRead("IndexError")
        ELSE IF Len(parts) # 2 THEN NoRead("ValueError")
        ELSE IF ~ParseInt(parts[1]).ok THEN NoRead("ValueError")
        ELSE [err |-> "none", veh_id |-> ParseInt(parts[1]).val,
              info_bitmap |-> parts[2], tracked |-> <<cut[Len(cut)]>>]

\* the rest of the branch, on what it decoded and the simulator's data
TrackingOutput(rd, data) ==
    IF rd.err # "none" THEN AnsCrash(rd.err)
    ELSE IF \E i \in 1..Len(rd.info_bitmap) :
                rd.info_bitmap[i] = 49 /\ i > NUM_ATTRS
    THEN AnsCrash("IndexError")
    ELSE IF BitmapFormat(rd.info_bitmap, 1) = <<>> THEN AnsCrash("TypeError")
    ELSE Ans(BitmapFormat(rd.info_bitmap, 1), Selected(data, rd.info_bitmap, 1))

\* gui/run.py, the VEH_GET_TRACKING branch on the parameter string it read
TrackingAnswer(text, data) == TrackingOutput(TrackingRead(text), data)

\* the names flow/utils/aimsun/aimsun_struct.py defines, the module run.py
\* and gui/run.py import as aimsun_struct
StructModule ==
    {"INFOS_ATTR_BY_INDEX", "NUM_ATTRS", "InfVeh", "STATIC_INFOS_ATTR_BY_INDEX",
     "NUM_STATIC_ATTRS", "StaticInfVeh"}

\* the first keys of the tuples of flow/utils/aimsun/aimsun/aimsun_struct.py
keys_static_veh_info == <<T_report, T_idVeh, T_type, T_length>>
keys_dynamic_veh_info == <<T_report, T_idVeh, T_type, T_idSection>>
keys_acc_veh_info == <<T_report, T_idVeh, T_accType>>

\* the attribute of aimsun_struct a branch takes its valid keys from
ValidKeysName(v, c) ==
    IF c = OpCode("VEH_GET_DYNAMIC") THEN "keys_dynamic_veh_info"
    ELSE IF c = OpCode("VEH_GET_ACC") THEN "keys_acc_veh_info"
    ELSE IF v = "console" THEN "keys_static_veh_info"
    ELSE "keys_static_veh_in_section"
\* the keys of the struct the branch reads
ValidKeys(c) ==
    IF c = OpCode("VEH_GET_DYNAMIC") THEN keys_dynamic_veh_info
    ELSE IF c = OpCode("VEH_GET_ACC") THEN keys_acc_veh_info
    ELSE keys_static_veh_info

\* the struct the simulator returns: its report, and a value per attribute
InfoStruct(keys, report) ==
    VDict([i \in 1..Len(keys) |->
            Item(keys[i], IF i = 1 THEN VInt(report) ELSE VInt(10 + i))])

Range(f) == {f[i] : i \in 1..Len(f)}

\* bool(x)
Truthy(x) ==
    IF x.t = "None" THEN FALSE
    ELSE IF x.t \in {"int", "float", "bool"} THEN x.s[1] # 0
    ELSE IF x.t = "str" THEN x.s # <<>>
    ELSE x.e # <<>>

\* to_dict(struct, valid_keys, keys): err is the exception raised
RECURSIVE ToDictFrom(_, _, _, _, _)
ToDictFrom(struct, valid_keys, keys, i, results) ==
    IF i > Len(keys) THEN [err |-> "none", val |-> VDict(results)]
    ELSE IF keys[i] \notin Range(valid_keys)
    THEN [err |-> "KeyError", val |-> VNone]
    ELSE ToDictFrom(struct, valid_keys, keys, i + 1,
                    SetItem(results, keys[i], Lookup(struct.e, keys[i])))
RECURSIVE NoneFor(_, _)
NoneFor(keys, n) ==
    IF n = 0 THEN <<>> ELSE SetItem(NoneFor(keys, n - 1), keys[n], VNone)
to_dict(struct, valid_keys, keys) ==
    IF Lookup(struct.e, T_report).s[1] # 0
    THEN [err |-> "RuntimeError", val |-> VNone]
    ELSE ToDictFrom(struct, valid_keys, keys, 1, NoneFor(keys, Len(keys)))

\* {'report': -1}
ErrorRecord == VDict(<<Item(T_report, VInt(0 - 1))>>)

\* config_dict = get_formatted_message(s, 'dict') for the text read
Config_dict(text) == Loads(text).val
\* config_dict['keys']
Wanted(text) == Lookup(Config_dict(text).e, T_keys)

\* the keys a request names
Requested(text) ==
    IF /\ Config_dict(text).t = "dict"
       /\ HasKey(Config_dict(text).e, T_keys)
       /\ Wanted(text).t \in {"list", "tuple"}
    THEN [i \in 1..Len(Wanted(text).e) |-> Wanted(text).e[i].s]
    ELSE <<>>

\* keys = config_dict['keys'] or valid_keys
KeysWanted(c, text) ==
    IF Truthy(Wanted(text)) THEN Requested(text) ELSE ValidKeys(c)

\* the report is not 0 or a key asked for is not a valid key
Fault(c, text, report) ==
    report # 0 \/ \E k \in Range(Requested(text)) : k \notin Range(ValidKeys(c))

\* what the branch sends for the outcome of to_dict: run.py catches
\* RuntimeError and KeyError, gui/run.py does not
DictOutput(v, out) ==
    IF out.err = "none" THEN AnsText(Dumps(out.val))
    ELSE IF v = "console" THEN AnsText(Dumps(ErrorRecord))
    ELSE AnsCrash(out.err)

\* the VEH_GET_STATIC, VEH_GET_DYNAMIC and VEH_GET_ACC branches on the text
\* of the request they read, the struct of the simulator having the given
\* report
DictReply(v, c, text, report) ==
    IF Config_dict(text).t # "dict" THEN AnsCrash("TypeError")
    ELSE IF ~HasKey(Config_dict(text).e, T_veh_id) THEN AnsCrash("KeyError")
    ELSE IF v = "console" /\ ~HasKey(Config_dict(text).e, T_tracked)
    THEN AnsCrash("KeyError")
    ELSE IF ValidKeysName(v, c) \notin StructModule
    THEN AnsCrash("AttributeError")
    ELSE IF ~HasKey(Config_dict(text).e, T_keys) THEN AnsCrash("KeyError")
    ELSE IF Truthy(Wanted(text)) /\ Wanted(text).t \notin {"list", "tuple"}
    THEN AnsCrash("TypeError")
    ELSE IF "to_dict" \notin StructModule THEN AnsCrash("AttributeError")
    ELSE DictOutput(v, to_dict(InfoStruct(ValidKeys(c), report), ValidKeys(c),
                               KeysWanted(c, text)))

\* the branch on the request it read; fault (history): the case of an error
\* record
DictAnswer(v, c, text, report) ==
    [DictReply(v, c, text, report) EXCEPT !.fault = Fault(c, text, report)]

\* the results of the simulator calls of a branch, the simulator being free
\* to answer either way where the branch does not decide
Answers(v, c, arg) ==
    LET one == <<"i">> IN
    IF ~Branch(v, c).known THEN {Ans(one, <<UNKNOWN_REPLY>>)}
    ELSE IF c \in Ops({"GET_EDGE_NAME"}) THEN {Ans(one, <<330>>), Ans(one, <<0 - 1>>)}
    ELSE IF c = OpCode("ADD_VEHICLE") THEN {Ans(one, <<3>>), Ans(one, <<0 - 1>>)}
    ELSE IF c = OpCode("VEH_GET_TYPE_ID") THEN {Ans(one, <<1>>), AnsCrash("AttributeError")}
    ELSE IF c \in Ops({"VEH_GET_LEADER", "VEH_GET_FOLLOWER"})
    THEN {Ans(one, <<2>>), Ans(one, <<0 - 1>>)}
    ELSE IF c = OpCode("VEH_GET_NEXT_SECTION")
    THEN {Ans(one, <<331>>), Ans(one, <<0 - 1>>)}
    ELSE IF c = OpCode("TL_GET_STATE") THEN {Ans(one, <<0>>), Ans(one, <<1>>)}
    ELSE IF c = OpCode("VEH_GET_LENGTH") THEN {Ans(<<"f">>, <<5>>)}
    ELSE IF c = OpCode("VEH_GET_TYPE_NAME") THEN {AnsText(CarName)}
    ELSE IF c = OpCode("TL_GET_IDS") THEN {AnsText(IdsText(<<>>)), AnsText(IdsText(<<1, 2>>))}
    ELSE IF c = OpCode("VEH_GET_ENTERED_IDS") THEN {AnsText(IdsText(entered_vehicles))}
    ELSE IF c = OpCode("VEH_GET_EXITED_IDS") THEN {AnsText(IdsText(exited_vehicles))}
    ELSE IF c = OpCode("VEH_GET_TRACKING") THEN {TrackingAnswer(arg, TrackData)}
    ELSE IF c \in Ops({"VEH_GET_STATIC", "VEH_GET_DYNAMIC", "VEH_GET_ACC"})
    THEN {DictAnswer(v, c, arg, report) : report \in {0, 0 - 1}}
    ELSE {Ans(one, <<0>>)}

(***************************************************************************)
(* Spec: one controller and one Aimsun process on one server socket.       *)
(***************************************************************************)
MaxResets == 1
MaxLoaders == 1
\* entered and exited ids waiting to be drained, together
MaxBuf == 2
\* vehicles that enter while one script is loaded
MaxEntered == 2
MaxConns == MaxResets + MaxLoaders + 1

NoCall == M("none", "SIMULATION_STEP", FNone, <<>>, FNone)
NoXfer ==
    [snd |-> "ctl", rcv |-> "sim", s |-> <<>>, n |-> 0, ascii |-> TRUE,
     dropped |-> FALSE, rec |-> FALSE]
\* the callbacks since the last drain of each kind, and the callbacks the
\* drain command of the call under way took over; all: every id
\* AAPIEnterVehicle was called with since the script was loaded; got: the lists
\* the earlier get_entered_ids calls returned, one after the other
NoSince ==
    [entered |-> <<>>, exited |-> <<>>, last |-> <<>>, all |-> <<>>,
     got |-> <<>>]

\* WolfAimsunAPI.__init__ is in accept_aimsun_connection
CtlInit ==
    [pc |-> "accept", call |-> NoCall, ret |-> NoRet, resets |-> 0,
     rejected |-> FALSE]
\* no command read yet, nothing returned yet
NoValue == 0 - 1
\* the script is not loaded yet; unknown (history): simulation_step has met a
\* command it has no branch for; acked (history): AAPILoad read the server's
\* acknowledgement; ret: what simulation_step returned last
SimInit ==
    [pc |-> "unloaded", command |-> NoValue, reads |-> <<>>, order |-> "none",
     extra |-> FALSE, acked |-> FALSE, unknown |-> FALSE, err |-> "none",
     ret |-> NoValue, fault |-> FALSE]

Init ==
    /\ net = <<>>
    /\ sock = [e \in E |-> 0]
    /\ io = [e \in E |-> IoIdle]
    /\ log = <<>>
    /\ xfer = NoXfer
    /\ variant \in {"console", "gui"}
    /\ ctl = CtlInit
    /\ sim = SimInit
    /\ pending = <<>>
    /\ entered_vehicles = <<>>
    /\ exited_vehicles = <<>>
    /\ sim_reset = FALSE
    /\ env = NoEnv
    /\ hist = <<>>
    /\ since = NoSince

SetConn(e, c) == net' = [net EXCEPT ![sock[e]] = c]

\* socket.close(): with unread data the peer gets a reset, else the end of
\* stream (fin); nothing is left of the streams once both ends are closed
Close(c, e) ==
    [c EXCEPT !.closed[e] = TRUE,
              !.rst[Peer(e)] = @ \/ c.rx[e] # <<>>,
              !.fin[Peer(e)] = c.rx[e] = <<>>,
              !.rx = IF c.closed[Peer(e)] THEN [d \in E |-> <<>>] ELSE @]

\* the steps of one exchange, in the order the protocol gives them
Cycle == <<"ready", "opcode", "ack", "payload">>
Step(h, name) == IF name = "ready" /\ h = Cycle THEN <<name>> ELSE Append(h, name)
\* a step is recorded when its frame was written to the peer
Stepped(ev, name) == IF ev = <<>> THEN hist ELSE Step(hist, name)

simvars == <<sim, entered_vehicles, exited_vehicles, sim_reset, since>>

(***************************************************************************)
(* api.py                                                                  *)
(***************************************************************************)
\* the test of the accept loop
Connected_any(data) == TRUE
Connected(data) == data = RUN_API_ID

\* simulation_reset goes on to accept_aimsun_connection
Reconnects_never(method) == FALSE
Reconnects(method) == method = "simulation_reset"

\* accept_aimsun_connection: conn, address = server.accept(); the socket conn
\* was bound to before is dropped
CtlAccept ==
    /\ ctl.pc = "accept"
    /\ pending # <<>>
    /\ LET id == Head(pending) IN
       /\ sock' = [sock EXCEPT !["ctl"] = id]
       /\ net' = IF ctl.rejected
                 THEN [net EXCEPT ![sock["ctl"]] = Close(@, "ctl")]
                 ELSE net
    /\ pending' = Tail(pending)
    /\ ctl' = [ctl EXCEPT !.pc = "hello", !.rejected = FALSE]
    /\ UNCHANGED <<io, log, xfer, variant, env, simvars, hist>>

\* connected = (conn.recv(STATRESP_LEN) == RUN_API_ID); out of the loop:
\* conn.send(STATRESP); return conn
CtlHello ==
    /\ ctl.pc = "hello"
    /\ CanRecv("ctl")
    /\ \E r \in RecvSet(Conn("ctl"), "ctl", STATRESP_LEN) :
         IF r.kind = "err" \/ ~Connected(r.b)
         THEN /\ ctl' = [ctl EXCEPT !.pc = "accept", !.rejected = TRUE]
              /\ SetConn("ctl", [r.c EXCEPT !.hello = r.b])
         ELSE LET s == SendOn(r.c, "ctl", STATRESP, "welcome") IN
              IF s.ok
              THEN /\ ctl' = [ctl EXCEPT !.pc = "idle", !.ret = RetNone]
                   /\ SetConn("ctl", [s.c EXCEPT !.hello = r.b, !.acks = @ + 1])
              ELSE /\ ctl' = [ctl EXCEPT !.pc = "raised",
                                         !.ret = RetErr("socket.error")]
                   /\ SetConn("ctl", [r.c EXCEPT !.hello = r.b])
    /\ UNCHANGED <<sock, io, log, xfer, variant, env, simvars, pending, hist>>

\* a method of the API is called
CtlCall ==
    /\ ctl.pc = "idle"
    /\ \E call \in ApiCalls :
         /\ call.method = "simulation_reset" => ctl.resets < MaxResets
         /\ ctl' = [ctl EXCEPT !.pc = "ready", !.call = call, !.ret = NoRet]
    /\ since' = [since EXCEPT
                    !.last = <<>>,
                    !.got = IF ctl.call.method = "get_entered_ids"
                               /\ ctl.ret.k = "list"
                            THEN @ \o ctl.ret.v ELSE @]
    /\ UNCHANGED <<net, sock, io, log, xfer, variant, env, sim, entered_vehicles,
                   exited_vehicles, sim_reset, pending, hist>>

\* an exception leaves _send_command and the method that called it
CtlRaise_retry(kind) == ctl' = [ctl EXCEPT !.pc = "ready"]
CtlRaise(kind) == ctl' = [ctl EXCEPT !.pc = "raised", !.ret = RetErr(kind)]

\* _send_command: self.conn.recv(STATRESP_LEN);
\* self.conn.send(str(command_type).encode())
CtlSendOpcode ==
    /\ ctl.pc = "ready"
    /\ CanRecv("ctl")
    /\ \E r \in RecvSet(Conn("ctl"), "ctl", STATRESP_LEN) :
         IF r.kind = "err"
         THEN /\ CtlRaise("socket.error")
              /\ UNCHANGED <<net, hist>>
         ELSE LET s == SendOn(r.c, "ctl", IntStr(ctl.call.op), "opcode") IN
              IF s.ok
              THEN /\ ctl' = [ctl EXCEPT !.pc = "ack"]
                   /\ SetConn("ctl", s.c)
                   /\ hist' = Stepped(s.ev, "opcode")
              ELSE /\ CtlRaise("socket.error")
                   /\ SetConn("ctl", r.c)
                   /\ UNCHANGED hist
    /\ UNCHANGED <<sock, io, log, xfer, variant, env, simvars, pending>>

\* the method returns from the message raw that _send_command returned, the
\* connection being c; add_vehicle with a type name goes on to its second
\* command, simulation_reset closes the connection and accepts a new one
CtlFinish(c, raw) ==
    LET call == ctl.call
        res  == Result(call, raw)
    IN  IF call.method = "add_vehicle" /\ call.op = OpCode("VEH_GET_TYPE_ID")
        THEN /\ ctl' = [ctl EXCEPT !.pc = "ready", !.call = AddVehicle(raw[1])]
             /\ SetConn("ctl", c)
        ELSE IF call.method = "simulation_reset"
        THEN /\ ctl' = [ctl EXCEPT
                            !.pc = IF Reconnects(call.method) THEN "accept"
                                   ELSE "idle",
                            !.ret = IF Reconnects(call.method) THEN NoRet
                                    ELSE RetNone,
                            !.resets = @ + 1]
             /\ SetConn("ctl", Close(c, "ctl"))
        ELSE /\ ctl' = [ctl EXCEPT !.pc = IF IsError(res) THEN "raised" ELSE "idle",
                                   !.ret = res]
             /\ SetConn("ctl", c)

\* _send_command after the payload: return, or get_formatted_message
CtlAfterPayload(c) ==
    LET outf == ctl.call.outf IN
    /\ io' = [io EXCEPT !["ctl"] = IF outf.k \in {"str", "dict"} THEN IoGetStr
                                   ELSE IoIdle]
    /\ IF outf.k = "none" THEN CtlFinish(c, <<>>)
       ELSE /\ ctl' = [ctl EXCEPT !.pc = IF outf.k \in {"str", "dict"} THEN "str"
                                         ELSE "result"]
            /\ SetConn("ctl", c)

\* _send_command: self.conn.recv(STATRESP_LEN); then
\* send_formatted_message(self.conn, in_format, *values) or
\* self.conn.send(STATRESP)
CtlSendPayload ==
    /\ ctl.pc = "ack"
    /\ CanRecv("ctl")
    /\ \E r \in RecvSet(Conn("ctl"), "ctl", STATRESP_LEN) :
         LET inf == ctl.call.inf IN
         IF r.kind = "err"
         THEN /\ CtlRaise("socket.error")
              /\ UNCHANGED <<net, io, hist>>
         ELSE IF inf.k \in {"str", "dict"}
         THEN /\ ctl' = [ctl EXCEPT !.pc = "send"]
              /\ io' = [io EXCEPT !["ctl"] = IoSendStr(ctl.call.vals)]
              /\ SetConn("ctl", r.c)
              /\ hist' = Step(hist, "payload")
         ELSE LET p == IF inf.k = "none" THEN [ok |-> TRUE, b |-> STATRESP]
                       ELSE Pack(inf.f, ctl.call.vals)
                  s == SendOn(r.c, "ctl", p.b,
                              IF inf.k = "none" THEN "bare" ELSE "payload")
              IN  IF ~p.ok
                  THEN /\ CtlRaise("struct.error")
                       /\ SetConn("ctl", r.c)
                       /\ UNCHANGED <<io, hist>>
                  ELSE IF ~s.ok
                  THEN /\ CtlRaise("socket.error")
                       /\ SetConn("ctl", r.c)
                       /\ UNCHANGED <<io, hist>>
                  ELSE /\ CtlAfterPayload(s.c)
                       /\ hist' = Stepped(s.ev, "payload")
    /\ UNCHANGED <<sock, log, xfer, variant, env, simvars, pending>>


\* the exception a failed send_formatted_message / get_formatted_message raises
ErrName(err) == IF err = "socket" THEN "socket.error" ELSE "UnicodeDecodeError"

\* send_formatted_message(self.conn, 'str', ...) has returned or raised
CtlPayloadSent ==
    /\ ctl.pc = "send"
    /\ io["ctl"].pc \in {"done", "raised"}
    /\ IF io["ctl"].pc = "raised"
       THEN /\ CtlRaise(ErrName(io["ctl"].err))
            /\ io' = [io EXCEPT !["ctl"] = IoIdle]
            /\ UNCHANGED net
       ELSE CtlAfterPayload(Conn("ctl"))
    /\ UNCHANGED <<sock, log, xfer, variant, env, simvars, pending, hist>>

\* get_formatted_message(self.conn, out_format) for a struct format:
\* data = conn.recv(unpacker.size); unpacker.unpack(data)
CtlResult ==
    /\ ctl.pc = "result"
    /\ CanRecv("ctl")
    /\ LET fmt == ctl.call.outf.f IN
       \E r \in RecvSet(Conn("ctl"), "ctl", CalcSize(fmt)) :
         LET u == Unpack(fmt, r.b) IN
         IF r.kind = "err"
         THEN /\ CtlRaise("socket.error")
              /\ UNCHANGED net
         ELSE IF ~u.ok
         THEN /\ CtlRaise("struct.error")
              /\ SetConn("ctl", r.c)
         ELSE CtlFinish(r.c, u.vals)
    /\ UNCHANGED <<sock, io, log, xfer, variant, env, simvars, pending, hist>>

\* get_formatted_message(self.conn, 'str') has returned or raised
CtlGotStr ==
    /\ ctl.pc = "str"
    /\ io["ctl"].pc \in {"done", "raised"}
    /\ IF io["ctl"].pc = "raised"
       THEN /\ CtlRaise(ErrName(io["ctl"].err))
            /\ UNCHANGED net
       ELSE CtlFinish(Conn("ctl"), io["ctl"].acc)
    /\ io' = [io EXCEPT !["ctl"] = IoIdle]
    /\ UNCHANGED <<sock, log, xfer, variant, env, simvars, pending, hist>>

\* the controller's process ends, between two calls or on the exception a
\* call raised: its socket is closed
CtlExit ==
    /\ ctl.pc \in {"idle", "raised"}
    /\ ctl' = [ctl EXCEPT !.pc = "gone"]
    /\ SetConn("ctl", Close(Conn("ctl"), "ctl"))
    /\ UNCHANGED <<sock, io, log, xfer, variant, env, simvars, pending, hist>>

(***************************************************************************)
(* run.py, gui/run.py                                                      *)
(***************************************************************************)
\* an exception leaves simulation_step
SimCrash(kind) == sim' = [sim EXCEPT !.pc = "crashed", !.reads = <<>>, !.err = kind]

\* except socket.error: ANGSetSimulationOrder(1, ...); break; return 0
SimCancel == sim' = [sim EXCEPT !.pc = "between", !.order = "cancel", !.ret = 0]

\* what the buffer is after its drain
Drained_kept(buffer) == buffer
Drained(buffer) == <<>>

\* the buffers the branch of command c assigns [] to
Drains_both(c) ==
    IF c \in Ops({"VEH_GET_ENTERED_IDS", "VEH_GET_EXITED_IDS"})
    THEN {"entered", "exited"} ELSE {}
Drains(c) ==
    IF c = OpCode("VEH_GET_ENTERED_IDS") THEN {"entered"}
    ELSE IF c = OpCode("VEH_GET_EXITED_IDS") THEN {"exited"}
    ELSE {}

\* AAPILoad: socket(), connect(), s.send(RUN_API_ID)
AAPILoad ==
    /\ sim.pc = "unloaded"
    /\ Len(net) < MaxConns
    /\ LET s == SendOn(NewConn, "sim", RUN_API_ID, "hello") IN
       /\ net' = Append(net, s.c)
       /\ sock' = [sock EXCEPT !["sim"] = Len(net) + 1]
       /\ pending' = Append(pending, Len(net) + 1)
    /\ sim' = [sim EXCEPT !.pc = "loading", !.acked = FALSE]
    /\ UNCHANGED <<io, log, xfer, variant, env, ctl, entered_vehicles,
                   exited_vehicles, sim_reset, hist, since>>

\* AAPILoad: s.recv(STATRESP_LEN); connected = True; a socket error starts over
AAPILoadAck ==
    /\ sim.pc = "loading"
    /\ CanRecv("sim")
    /\ \E r \in RecvSet(Conn("sim"), "sim", STATRESP_LEN) :
         IF r.kind = "err"
         THEN /\ sim' = [sim EXCEPT !.pc = "unloaded"]
              /\ SetConn("sim", Close(r.c, "sim"))
         ELSE /\ sim' = [sim EXCEPT !.pc = "between",
                                    !.acked = (r.tags = <<"welcome">>)]
              /\ SetConn("sim", r.c)
    /\ UNCHANGED <<sock, io, log, xfer, variant, env, ctl, pending, entered_vehicles,
                   exited_vehicles, sim_reset, hist, since>>

\* load.py, generate.py, which run before the script is loaded: connect and
\* s.send(NETWORK_LOAD_ID) on the same server
LoaderConnect ==
    /\ sim.pc = "unloaded"
    /\ Len(net) < MaxConns
    /\ Cardinality({i \in 1..Len(net) : net[i].by = "load"}) < MaxLoaders
    /\ LET s == SendOn([NewConn EXCEPT !.by = "load"], "sim", NETWORK_LOAD_ID,
                       "hello") IN
       /\ net' = Append(net, s.c)
       /\ pending' = Append(pending, Len(net) + 1)
    /\ UNCHANGED <<sock, io, log, xfer, variant, env, ctl, simvars, hist>>

\* the simulator reports a vehicle between two calls of AAPIManage
AAPIEnterVehicle ==
    /\ sim.pc = "between"
    /\ sim.order = "none"
    /\ Len(entered_vehicles) + Len(exited_vehicles) < MaxBuf
    /\ Len(since.all) < MaxEntered
    /\ \E idveh \in VehIds :
         /\ entered_vehicles' = Append(entered_vehicles, idveh)
         /\ since' = [since EXCEPT !.entered = Append(@, idveh),
                                   !.all = Append(@, idveh)]
    /\ UNCHANGED <<net, sock, io, log, xfer, variant, env, ctl, sim, pending,
                   exited_vehicles, sim_reset, hist>>

AAPIExitVehicle ==
    /\ sim.pc = "between"
    /\ sim.order = "none"
    /\ Len(entered_vehicles) + Len(exited_vehicles) < MaxBuf
    /\ \E idveh \in VehIds :
         /\ exited_vehicles' = Append(exited_vehicles, idveh)
         /\ since' = [since EXCEPT !.exited = Append(@, idveh)]
    /\ UNCHANGED <<net, sock, io, log, xfer, variant, env, ctl, sim, pending,
                   entered_vehicles, sim_reset, hist>>

\* simulation_step, top of the loop, on connection c: s.send(STATRESP), then
\* the wait for the command; a socket error cancels the experiment
WaitForCommand(c) ==
    LET s == SendOn(c, "sim", STATRESP, "ready") IN
    IF s.ok
    THEN /\ sim' = [sim EXCEPT !.pc = "command", !.command = NoValue,
                               !.reads = <<>>, !.extra = (sim.order = "rewind"),
                               !.ret = NoValue]
         /\ SetConn("sim", [s.c EXCEPT !.readied = @ \/ s.ev # <<>>])
         /\ hist' = Stepped(s.ev, "ready")
    ELSE /\ sim' = [sim EXCEPT !.pc = "between", !.command = NoValue,
                               !.reads = <<>>, !.order = "cancel",
                               !.extra = (sim.order = "rewind"), !.ret = 0]
         /\ SetConn("sim", c)
         /\ UNCHANGED hist

\* AAPIManage: simulation_step(s), or nothing once the console script has
\* seen a reset; Aimsun makes one more call after a rewind order
AAPIManage ==
    /\ sim.pc = "between"
    /\ sim.order # "cancel"
    /\ sim.order = "rewind" => ~sim.extra
    /\ IF variant = "console" /\ sim_reset
       THEN /\ sim' = [sim EXCEPT !.extra = TRUE, !.ret = 0]
            /\ UNCHANGED <<net, hist>>
       ELSE WaitForCommand(Conn("sim"))
    /\ UNCHANGED <<sock, io, log, xfer, variant, env, ctl, pending,
                   entered_vehicles, exited_vehicles, sim_reset, since>>

\* after a rewind or cancel order: AAPIUnLoad closes the socket; a rewind then
\* loads the script again, with its globals as the module sets them
AAPIUnLoad ==
    /\ sim.pc = "between"
    /\ sim.order \in {"rewind", "cancel"}
    /\ SetConn("sim", Close(Conn("sim"), "sim"))
    /\ IF sim.order = "rewind"
       THEN /\ sim' = SimInit
            /\ entered_vehicles' = <<>>
            /\ exited_vehicles' = <<>>
            /\ sim_reset' = FALSE
            /\ since' = NoSince
       ELSE /\ sim' = [sim EXCEPT !.pc = "ended"]
            /\ UNCHANGED <<entered_vehicles, exited_vehicles, sim_reset, since>>
    /\ UNCHANGED <<sock, io, log, xfer, variant, env, ctl, pending, hist>>

\* the end of a pass of the loop for command c, on connection conn: step_done
\* and the simulation order of step, reset and terminate, and return 0; back
\* to the top of the loop otherwise
LoopEnd(conn, c) ==
    /\ IF LoopExits(c)
       THEN /\ sim' = [sim EXCEPT
                          !.pc = "between",
                          !.command = NoValue,
                          !.reads = <<>>,
                          !.ret = 0,
                          !.order = IF c = OpCode("SIMULATION_RESET") THEN "rewind"
                                    ELSE IF c = OpCode("SIMULATION_TERMINATE")
                                    THEN "cancel"
                                    ELSE @]
            /\ SetConn("sim", conn)
            /\ UNCHANGED hist
       ELSE WaitForCommand(conn)
    /\ sim_reset' = IF variant = "console" /\ c = OpCode("SIMULATION_RESET")
                    THEN TRUE ELSE sim_reset

\* json.loads accepts the text
JsonObject(text) == Loads(text).ok

\* the branch of command c after its inputs (the last one decoded as arg),
\* the connection being conn: the simulator call and the result sent
SimRespond(conn, c, arg) ==
    \E a \in Answers(variant, c, arg) :
        LET outf == Branch(variant, c).outf IN
        IF a.crash
        THEN /\ sim' = [sim EXCEPT !.pc = "crashed", !.reads = <<>>,
                                   !.err = a.err, !.fault = a.fault]
             /\ SetConn("sim", conn)
             /\ io' = [io EXCEPT !["sim"] = IoIdle]
             /\ UNCHANGED <<sim_reset, hist>>
        ELSE IF outf.k = "none"
        THEN /\ LoopEnd(conn, c)
             /\ io' = [io EXCEPT !["sim"] = IoIdle]
        ELSE IF outf.k \in {"str", "dict"}
        THEN /\ sim' = [sim EXCEPT !.pc = "out", !.reads = <<>>,
                                   !.fault = a.fault]
             /\ io' = [io EXCEPT !["sim"] = IoSendStr(a.text)]
             /\ SetConn("sim", conn)
             /\ UNCHANGED <<sim_reset, hist>>
        ELSE LET p == Pack(a.fmt, a.vals)
                 s == SendOn(conn, "sim", p.b, "result")
             IN  /\ io' = [io EXCEPT !["sim"] = IoIdle]
                 /\ IF p.ok /\ s.ok
                    THEN LoopEnd(s.c, c)
                    ELSE /\ SimCrash(IF p.ok THEN "socket.error" ELSE "struct.error")
                         /\ SetConn("sim", conn)
                         /\ UNCHANGED <<sim_reset, hist>>

\* simulation_step: command = int(s.recv(STATRESP_LEN)); the branch of the
\* command up to its first read: s.send(STATRESP), which the else branch does
\* not do
SimCommand ==
    /\ sim.pc = "command"
    /\ CanRecv("sim")
    /\ \E r \in RecvSet(Conn("sim"), "sim", STATRESP_LEN) :
         LET p  == ParseInt(r.b)
             br == Branch(variant, p.val)
             s  == IF br.known THEN SendOn(r.c, "sim", STATRESP, "ack")
                   ELSE [ok |-> TRUE, c |-> r.c, ev |-> <<>>]
         IN
         IF r.kind = "err"
         THEN /\ SimCancel
              /\ UNCHANGED <<net, io, hist, since>>
         ELSE IF ~p.ok \/ ~s.ok
         THEN /\ SimCrash(IF p.ok THEN "socket.error" ELSE "ValueError")
              /\ SetConn("sim", r.c)
              /\ UNCHANGED <<io, hist, since>>
         ELSE /\ SetConn("sim", s.c)
              /\ hist' = Stepped(s.ev, "ack")
              /\ since' =
                    IF p.val = OpCode("VEH_GET_ENTERED_IDS")
                    THEN [since EXCEPT !.last = since.entered,
                                       !.entered = <<>>]
                    ELSE IF p.val = OpCode("VEH_GET_EXITED_IDS")
                    THEN [since EXCEPT !.last = since.exited,
                                       !.exited = <<>>]
                    ELSE since
              /\ sim' = [sim EXCEPT
                            !.pc = IF br.reads # <<>>
                                      /\ Head(br.reads).k \in {"str", "dict"}
                                   THEN "str" ELSE "input",
                            !.command = p.val,
                            !.reads = br.reads,
                            !.fault = FALSE,
                            !.unknown = @ \/ ~br.known]
              /\ io' = IF sim'.pc = "str"
                       THEN [io EXCEPT !["sim"] = IoGetStr]
                       ELSE io
    /\ UNCHANGED <<sock, log, xfer, variant, env, ctl, pending, entered_vehicles,
                   exited_vehicles, sim_reset>>

\* the next read of the branch: s.recv(STATRESP_LEN), or
\* get_formatted_message(s, fmt) for a struct format; after the last read (at
\* once for a branch that reads nothing) the branch answers
SimInput ==
    /\ sim.pc = "input"
    /\ IF sim.reads = <<>>
       THEN SimRespond(Conn("sim"), sim.command, <<>>)
       ELSE
        /\ CanRecv("sim")
        /\ LET fmt == Head(sim.reads)
               n   == IF fmt.k = "none" THEN STATRESP_LEN ELSE CalcSize(fmt.f)
           IN  \E r \in RecvSet(Conn("sim"), "sim", n) :
                 LET u == IF fmt.k = "none" THEN [ok |-> TRUE, vals |-> <<>>]
                          ELSE Unpack(fmt.f, r.b)
                 IN
                 IF r.kind = "err" \/ ~u.ok
                 THEN /\ SimCrash(IF r.kind = "err" THEN "socket.error"
                                  ELSE "struct.error")
                      /\ SetConn("sim", r.c)
                      /\ UNCHANGED <<io, sim_reset, hist>>
                 ELSE IF Tail(sim.reads) # <<>>
                 THEN /\ sim' = [sim EXCEPT !.reads = Tail(@)]
                      /\ SetConn("sim", r.c)
                      /\ UNCHANGED <<io, sim_reset, hist>>
                 ELSE SimRespond(r.c, sim.command, u.vals)
    /\ UNCHANGED <<sock, log, xfer, variant, env, ctl, pending, entered_vehicles,
                   exited_vehicles, since>>

\* get_formatted_message(s, 'str') or (s, 'dict') of the branch has returned
\* or raised
SimGotStr ==
    /\ sim.pc = "str"
    /\ io["sim"].pc \in {"done", "raised"}
    /\ IF io["sim"].pc = "raised"
          \/ (Head(sim.reads).k = "dict" /\ ~JsonObject(io["sim"].acc))
       THEN /\ SimCrash(IF io["sim"].pc = "raised" THEN ErrName(io["sim"].err)
                         ELSE "ValueError")
            /\ io' = [io EXCEPT !["sim"] = IoIdle]
            /\ UNCHANGED <<net, sim_reset, hist>>
       ELSE SimRespond(Conn("sim"), sim.command, io["sim"].acc)
    /\ UNCHANGED <<sock, log, xfer, variant, env, ctl, pending, entered_vehicles,
                   exited_vehicles, since>>

\* send_formatted_message(s, 'str', output) of the branch has returned or
\* raised; the drain branches then empty their buffer
SimOutDone ==
    /\ sim.pc = "out"
    /\ io["sim"].pc \in {"done", "raised"}
    /\ io' = [io EXCEPT !["sim"] = IoIdle]
    /\ IF io["sim"].pc = "raised"
       THEN /\ SimCrash(ErrName(io["sim"].err))
            /\ UNCHANGED <<net, entered_vehicles, exited_vehicles, sim_reset,
                           hist>>
       ELSE /\ LoopEnd(Conn("sim"), sim.command)
            /\ entered_vehicles' =
                    IF "entered" \in Drains(sim.command)
                    THEN Drained(entered_vehicles) ELSE entered_vehicles
            /\ exited_vehicles' =
                    IF "exited" \in Drains(sim.command)
                    THEN Drained(exited_vehicles) ELSE exited_vehicles
    /\ UNCHANGED <<sock, log, xfer, variant, env, ctl, pending, since>>

Next ==
    \/ \E e \in E : Codec(e)
    \/ CtlAccept
    \/ CtlHello
    \/ CtlCall
    \/ CtlSendOpcode
    \/ CtlSendPayload
    \/ CtlPayloadSent
    \/ CtlResult
    \/ CtlGotStr
    \/ CtlExit
    \/ AAPILoad
    \/ AAPILoadAck
    \/ LoaderConnect
    \/ AAPIEnterVehicle
    \/ AAPIExitVehicle
    \/ AAPIManage
    \/ AAPIUnLoad
    \/ SimCommand
    \/ SimInput
    \/ SimGotStr
    \/ SimOutDone

Spec == Init /\ [][Next]_vars

(***************************************************************************)
(* SpecStr: one string sent by one end and read by the other.              *)
(***************************************************************************)
IsAscii(s) == \A i \in 1..Len(s) : s[i] < 128

\* a string of len characters, 'a' everywhere but character c at position p
MkStr(len, p, c) == [i \in 1..len |-> IF i = p THEN c ELSE 97]

\* 'a', e-acute (2 bytes), euro sign (3 bytes)
Chars == {97, 233, 8364}

\* the lengths around the multiples of PACKET_SIZE, the empty string included
StrLens == {k * PACKET_SIZE + d : k \in 0..MaxPackets, d \in {0, 1}}

StrInputs ==
    {MkStr(len, p, c) :
        len \in StrLens,
        p \in {PACKET_SIZE - 1, PACKET_SIZE, PACKET_SIZE + 1, 2 * PACKET_SIZE - 1},
        c \in Chars}

InitStr ==
    /\ net = <<NewConn>>
    /\ sock = [e \in E |-> 1]
    /\ log = <<>>
    /\ \E snd \in E, s \in StrInputs :
         /\ xfer = [snd |-> snd, rcv |-> Peer(snd), s |-> s,
                    n |-> Len(Encode(s)), ascii |-> IsAscii(s),
                    dropped |-> FALSE, rec |-> TRUE]
         /\ io = [e \in E |-> IF e = snd THEN IoSendStr(s) ELSE IoGetStr]
    /\ variant = "console"
    /\ ctl = [CtlInit EXCEPT !.pc = "off"]
    /\ sim = [SimInit EXCEPT !.pc = "off"]
    /\ pending = <<>>
    /\ entered_vehicles = <<>>
    /\ exited_vehicles = <<>>
    /\ sim_reset = FALSE
    /\ env = NoEnv
    /\ hist = <<>>
    /\ since = NoSince

\* the sending process goes away in the middle of the transfer: its socket is
\* closed before it has sent TRANSFER_DONE; what it had written may or may not
\* still reach the reader
DropSender ==
    /\ ~xfer.dropped
    /\ LET snd == xfer.snd IN
       /\ io[snd].pc \in {"s_send", "s_ack1", "s_ack2"}
       /\ ~(io[snd].pc = "s_ack2" /\ io[snd].last)
       /\ io' = [io EXCEPT ![snd].pc = "dead"]
       /\ \E lost \in BOOLEAN :
            net' = [net EXCEPT ![1].closed[snd] = TRUE,
                               ![1].rx[xfer.rcv] = IF lost THEN <<>> ELSE @,
                               ![1].rst[xfer.rcv] = lost]
    /\ xfer' = [xfer EXCEPT !.dropped = TRUE]
    /\ UNCHANGED <<sock, log, sess>>

NextStr ==
    \/ \E e \in E : Codec(e)
    \/ DropSender

SpecStr == InitStr /\ [][NextStr]_vars

\* both processes keep running: a step that can be taken is taken
SpecStrFair ==
    /\ SpecStr
    /\ WF_vars(Codec("ctl"))
    /\ WF_vars(Codec("sim"))

(***************************************************************************)
(* SpecMsg: one send_formatted_message(conn, format, *values) by one end   *)
(* and one get_formatted_message(conn, format) by the other.               *)
(***************************************************************************)
Key(c) == <<c>>

\* 'ab', 'cd', and a text that does not fit one packet
TextAB == <<97, 98>>
TextCD == <<99, 100>>
LongText == [i \in 1..PACKET_SIZE |-> 97]

\* {'a': 1, 'b': 'ab'}, {'b': 2, 'c': None}, {'a': True, 'd': [1, 'cd']}
DictA == VDict(<<Item(Key(97), VInt(1)), Item(Key(98), VStr(TextAB))>>)
DictB == VDict(<<Item(Key(98), VInt(2)), Item(Key(99), VNone)>>)
DictC ==
    VDict(<<Item(Key(97), VBool(TRUE)),
            Item(Key(100), VList(<<VInt(1), VStr(TextCD)>>))>>)
\* a key and a value with a quote, a backslash, a newline, e-acute, the euro
\* sign and a character outside the basic plane, a tuple, a float, a dict
DictText ==
    VDict(<<Item(<<34, 233>>, VStr(<<92, 10, 8364, 128512, 34>>)),
            Item(Key(116), VTuple(<<VInt(0 - 7), VFloat(3), VBool(FALSE)>>)),
            Item(Key(110), VDict(<<Item(Key(120), VTuple(<<>>))>>))>>)
\* a dict whose text is longer than a packet, the escaped characters at the
\* packet boundary
DictLong(c) ==
    VDict(<<Item(Key(107), VStr([i \in 1..PACKET_SIZE |->
                                  IF i = PACKET_SIZE - 7 THEN c ELSE 97])),
            Item(Key(113), VInt(5))>>)

StrMsgs ==
    {<<VStr(TextAB)>>, <<VStr(LongText \o TextAB)>>,
     <<VStr(TextAB), VStr(TextCD)>>,
     <<VStr(TextAB), VStr(TextCD), VStr(TextAB)>>,
     <<VList(<<VStr(TextAB), VStr(TextCD)>>)>>}

DictMsgs ==
    {<<DictA>>, <<DictText>>, <<VDict(<<>>)>>,
     <<DictA, DictB>>, <<DictB, DictA>>, <<DictA, DictB, DictC>>,
     <<DictLong(34), DictA>>}
        \cup {<<DictLong(c)>> : c \in {97, 34, 8364}}

\* the struct formats the methods of api.py send and read
ProtocolFormats ==
    {c.inf.f : c \in {d \in ApiCalls : d.inf.k = "struct"}}
        \cup {c.outf.f : c \in {d \in ApiCalls : d.outf.k = "struct"}}
        \cup {<<"i">>, <<"f">>, <<"?">>}

\* values for the fields of a format: small ones, the largest each type
\* holds, and ones of full width
FieldValue(t, i, pick) ==
    IF t = "i"
    THEN VInt(IF pick = 1 THEN i ELSE IF pick = 2 THEN 0 - i
              ELSE 2147483647 - i)
    ELSE IF t = "f"
    THEN VFloat(IF pick = 1 THEN 10 * i ELSE IF pick = 2 THEN 16777216 - i
                ELSE 16777216 + i)
    ELSE VBool(IF pick = 1 THEN TRUE ELSE IF pick = 2 THEN FALSE
               ELSE i % 2 = 1)
Picks == {1, 2, 3}
StructMsgs ==
    {[fmt |-> F(f), vals |-> [i \in 1..Len(f) |-> FieldValue(f[i], i, pick)]] :
        f \in ProtocolFormats, pick \in Picks}

MsgInputs ==
    {[fmt |-> FStr, vals |-> v] : v \in StrMsgs}
        \cup {[fmt |-> FDict, vals |-> v] : v \in DictMsgs}
        \cup StructMsgs

Pending == [k |-> "pending", v |-> VNone]
Returned(val) == [k |-> "value", v |-> val]

InitMsg ==
    /\ net = <<NewConn>>
    /\ sock = [e \in E |-> 1]
    /\ log = <<>>
    /\ \E snd \in E, m \in MsgInputs :
         /\ xfer = [snd |-> snd, rcv |-> Peer(snd), fmt |-> m.fmt,
                    vals |-> m.vals, res |-> Pending, s |-> <<>>, n |-> 0,
                    ascii |-> TRUE, dropped |-> FALSE, rec |-> FALSE]
         /\ io = [e \in E |->
                    IF e = snd THEN [IoIdle EXCEPT !.pc = "call"]
                    ELSE IF m.fmt.k = "struct"
                    THEN [IoIdle EXCEPT !.pc = "g_struct"]
                    ELSE IoGetStr]
    /\ variant = "console"
    /\ ctl = [CtlInit EXCEPT !.pc = "off"]
    /\ sim = [SimInit EXCEPT !.pc = "off"]
    /\ pending = <<>>
    /\ entered_vehicles = <<>>
    /\ exited_vehicles = <<>>
    /\ sim_reset = FALSE
    /\ env = NoEnv
    /\ hist = <<>>
    /\ since = NoSince

\* the plain numbers struct takes from the values
Plain(vals) == [i \in 1..Len(vals) |-> vals[i].s[1]]
\* the tuple unpack returns, by the types of the format
Typed(fmt, nums) ==
    [i \in 1..Len(fmt) |->
        IF fmt[i] = "i" THEN VInt(nums[i])
        ELSE IF fmt[i] = "f" THEN VFloat(nums[i])
        ELSE VBool(nums[i] = 1)]

\* send_formatted_message up to its first conn.send: the branch on the format
MsgSend ==
    LET e == xfer.snd
        v == xfer.vals
    IN  /\ io[e].pc = "call"
        /\ IF xfer.fmt.k = "str"
           THEN /\ IF Len(v) # 1 THEN Raise(e, "TypeError")
                   ELSE IF v[1].t # "str" THEN Raise(e, "AttributeError")
                   ELSE io' = [io EXCEPT ![e] = IoSendStr(v[1].s)]
                /\ UNCHANGED <<net, log, xfer>>
           ELSE IF xfer.fmt.k = "dict"
           THEN LET message == IF Len(v) = 1 THEN v[1]
                               ELSE VDict(Combine(v, Len(v)))
                    text    == Dumps(message)
                IN  /\ io' = [io EXCEPT ![e] = IoSendStr(text)]
                    /\ xfer' = [xfer EXCEPT !.s = text, !.n = Len(Encode(text)),
                                            !.ascii = IsAscii(text)]
                    /\ UNCHANGED <<net, log>>
           ELSE LET p == Pack(xfer.fmt.f, Plain(v))
                    s == SendOn(Conn(e), e, p.b, "struct")
                IN  /\ IF ~p.ok THEN Raise(e, "struct.error") /\ UNCHANGED net
                       ELSE IF ~s.ok THEN Raise(e, "socket") /\ UNCHANGED net
                       ELSE /\ net' = [net EXCEPT ![sock[e]] = s.c]
                            /\ io' = [io EXCEPT ![e].pc = "done"]
                    /\ UNCHANGED <<log, xfer>>
        /\ UNCHANGED <<sock, sess>>

\* get_formatted_message with a struct format: recv(size) and unpack
MsgGetStruct ==
    LET e == xfer.rcv IN
    /\ io[e].pc = "g_struct"
    /\ CanRecv(e)
    /\ \E r \in RecvSet(Conn(e), e, CalcSize(xfer.fmt.f)) :
         IF r.kind = "err"
         THEN Raise(e, "socket") /\ UNCHANGED <<net, xfer>>
         ELSE LET u == Unpack(xfer.fmt.f, r.b) IN
              /\ net' = [net EXCEPT ![sock[e]] = r.c]
              /\ IF u.ok
                 THEN /\ io' = [io EXCEPT ![e].pc = "returned"]
                      /\ xfer' = [xfer EXCEPT
                                    !.res = Returned(VTuple(Typed(xfer.fmt.f,
                                                                  u.vals)))]
                 ELSE Raise(e, "struct.error") /\ UNCHANGED xfer
    /\ UNCHANGED <<sock, log, sess>>

\* get_formatted_message after the loop: the text, or json.loads of it
MsgReturn ==
    LET e == xfer.rcv IN
    /\ io[e].pc = "done"
    /\ IF xfer.fmt.k = "str"
       THEN /\ io' = [io EXCEPT ![e].pc = "returned"]
            /\ xfer' = [xfer EXCEPT !.res = Returned(VStr(io[e].acc))]
       ELSE LET r == Loads(io[e].acc) IN
            IF r.ok
            THEN /\ io' = [io EXCEPT ![e].pc = "returned"]
                 /\ xfer' = [xfer EXCEPT !.res = Returned(r.val)]
            ELSE Raise(e, "ValueError") /\ UNCHANGED xfer
    /\ UNCHANGED <<net, sock, log, sess>>

NextMsg ==
    \/ MsgSend
    \/ MsgGetStruct
    \/ MsgReturn
    \/ \E e \in E : Codec(e)

SpecMsg == InitMsg /\ [][NextMsg]_vars

(***************************************************************************)
(* SpecTrack: one get_vehicle_tracking_info(veh_id, info_bitmap, tracked)  *)
(* against gui/run.py, from the call to its return.  The dispatcher is at  *)
(* the top of its loop and has sent its ready token.                       *)
(***************************************************************************)
\* ids of one and of two digits
TrackIds == {1, 12}
\* the bits set in the bitmaps: none, a float, the last float, the first int,
\* a float and an int, the last int, all of them
TrackBitSets == {{}, {1}, {13}, {14}, {9, 14}, {NUM_ATTRS}, 1..NUM_ATTRS}
\* what the simulator holds for the vehicle: values a single holds exactly,
\* and a position that needs more than 24 bits
TrackDataSets == {TrackData, [TrackData EXCEPT ![1] = 16777217]}

\* history of the call: its arguments, the simulator's data, and what the
\* branch decoded (read), the query it made and the format it built
InitTrack ==
    /\ net = <<[NewConn EXCEPT
                    !.rx["ctl"] = <<[b |-> STATRESP, tag |-> "ready"]>>,
                    !.hello = RUN_API_ID, !.acks = 1, !.readied = TRUE]>>
    /\ sock = [e \in E |-> 1]
    /\ io = [e \in E |-> IoIdle]
    /\ log = <<>>
    /\ \E id \in TrackIds, bits \in TrackBitSets, tracked \in BOOLEAN,
          data \in TrackDataSets :
         xfer = [snd |-> "ctl", rcv |-> "sim", s |-> <<>>, n |-> 0,
                 ascii |-> TRUE, dropped |-> FALSE, rec |-> FALSE,
                 veh_id |-> id, info_bitmap |-> Bitmap(bits),
                 tracked |-> tracked, data |-> data, called |-> FALSE,
                 read |-> NoRead("none"), query |-> "none", fmt |-> <<>>]
    /\ variant = "gui"
    /\ ctl = [CtlInit EXCEPT !.pc = "idle", !.ret = RetNone]
    /\ sim = [SimInit EXCEPT !.pc = "command", !.acked = TRUE]
    /\ pending = <<>>
    /\ entered_vehicles = <<>>
    /\ exited_vehicles = <<>>
    /\ sim_reset = FALSE
    /\ env = NoEnv
    /\ hist = <<"ready">>
    /\ since = NoSince

\* get_vehicle_tracking_info up to _send_command: the output format from the
\* bitmap (return None when it is empty) and the parameter string
TrkCall ==
    /\ ctl.pc = "idle"
    /\ ~xfer.called
    /\ LET out_format == BitmapFormat(xfer.info_bitmap, 1) IN
       ctl' = IF out_format = <<>> THEN [ctl EXCEPT !.ret = RetNone]
              ELSE [ctl EXCEPT
                      !.pc = "ready",
                      !.ret = NoRet,
                      !.call = M("get_vehicle_tracking_info", "VEH_GET_TRACKING",
                                 FStr,
                                 TrackingParam(xfer.veh_id, xfer.info_bitmap,
                                               xfer.tracked),
                                 F(out_format))]
    /\ xfer' = [xfer EXCEPT !.called = TRUE]
    /\ UNCHANGED <<net, sock, io, log, variant, env, simvars, pending, hist>>

\* the VEH_GET_TRACKING branch once get_formatted_message(s, 'str') has
\* returned or raised: the decoding, the query, the data and the result sent
TrkBranch ==
    /\ sim.pc = "str"
    /\ sim.command = OpCode("VEH_GET_TRACKING")
    /\ io["sim"].pc \in {"done", "raised"}
    /\ io' = [io EXCEPT !["sim"] = IoIdle]
    /\ IF io["sim"].pc = "raised"
       THEN /\ SimCrash(ErrName(io["sim"].err))
            /\ UNCHANGED <<net, sim_reset, hist, xfer>>
       ELSE LET rd == TrackingRead(io["sim"].acc)
                a  == TrackingOutput(rd, xfer.data)
                p  == Pack(a.fmt, a.vals)
                s  == SendOn(Conn("sim"), "sim", p.b, "result")
            IN  /\ xfer' = [xfer EXCEPT
                              !.read = rd,
                              !.query = IF rd.err = "none"
                                        THEN TrackedQuery(rd.tracked)
                                        ELSE "none",
                              !.fmt = a.fmt]
                /\ IF a.crash
                   THEN /\ SimCrash(a.err)
                        /\ UNCHANGED <<net, sim_reset, hist>>
                   ELSE IF p.ok /\ s.ok THEN LoopEnd(s.c, sim.command)
                   ELSE /\ SimCrash(IF p.ok THEN "socket.error"
                                    ELSE "struct.error")
                        /\ UNCHANGED <<net, sim_reset, hist>>
    /\ UNCHANGED <<sock, log, variant, env, ctl, pending, entered_vehicles,
                   exited_vehicles, since>>

NextTrack ==
    \/ TrkCall
    \/ CtlSendOpcode
    \/ SimCommand
    \/ CtlSendPayload
    \/ \E e \in E : Codec(e)
    \/ CtlPayloadSent
    \/ TrkBranch
    \/ CtlResult

SpecTrack == InitTrack /\ [][NextTrack]_vars

(***************************************************************************)
(* flow/envs/multiagent/base.py: MultiEnv.step with action repeat.  The    *)
(* simulator and the subclass methods (get_state, compute_reward) answer   *)
(* each _step_helper call freely; one action is one call of _step_helper   *)
(* with the code of step or of the helper around it.                       *)
(***************************************************************************)
MaxRepeat == 2
MaxHorizon == 2
\* step is not called when time_counter has reached MaxTime
MaxTime == 4

EXTEND == 0
Connector == "ExtendChangePhaseConnector"

\* self._agents, by the class of each agent's _action_connector
AgentSets ==
    {[k \in {"a1"} |-> Connector], [k \in {"a1"} |-> "PhaseConnector"],
     [k \in {"a1", "a2"} |-> Connector]}
RepeatTypes == {"last_action", "extend_action", "ff", "skip"}
Rewards == {1, 2}
\* the actions of the agents with keys K
RlActions(K) == {[k \in K |-> a] : a \in {EXTEND, 1}}

\* operator.add, and the call op(a, b) of a function of the module operator
Add == "add"
Call(op, a, b) == IF op = Add THEN a + b ELSE b

\* update_dict_using_dict(d, u, op): d with op(d[k], u[k]) for the keys of
\* both and u[k] for the keys of u alone
update_dict_using_dict(d, u, op) ==
    [k \in DOMAIN d \cup DOMAIN u |->
        IF k \in DOMAIN d /\ k \in DOMAIN u THEN Call(op, d[k], u[k])
        ELSE IF k \in DOMAIN d THEN d[k] ELSE u[k]]

\* update_all_dict_values(d, val): d with val for every key
update_all_dict_values(d, val) == [k \in DOMAIN d |-> val]

\* no value yet: the local is not bound
NoOut == [states |-> <<>>, reward |-> <<>>, done |-> <<>>, infos |-> <<>>]

\* what _step_helper returns in environment e when the ids in arrived have
\* arrived, the observation says actionable and compute_reward gives r
StepOut(e, arrived, actionable, r) ==
    LET K == DOMAIN e._agents
        t == e.time_counter + e.sims_per_step
    IN  [states |-> [k \in K |->
                        IF k \in arrived THEN [none |-> TRUE, actionable |-> FALSE]
                        ELSE [none |-> FALSE, actionable |-> actionable]],
         reward |-> [k \in K |-> IF k \in arrived THEN 0 ELSE r],
         done   |-> [k \in K \cup {"__all__"} |->
                        IF k = "__all__"
                        THEN t >= e.sims_per_step * (e.warmup_steps + e.horizon)
                        ELSE k \in arrived],
         infos  |-> [k \in K |-> <<>>]]

\* _save_transition: of self.transitions, whether it is None, [] or a list of
\* some transitions; the assertion is made when it is None
Saved(e, out) ==
    IF ~e.store_transitions THEN [e |-> e, err |-> "none"]
    ELSE IF e.transitions = "None" /\ Cardinality(DOMAIN out.states) > 1
    THEN [e |-> [e EXCEPT !.transitions = "empty"], err |-> "AssertionError"]
    ELSE [e |-> [e EXCEPT !.transitions = IF out.done["__all__"] THEN "empty"
                                          ELSE "some"],
          err |-> "none"]

\* _step_helper(rl_actions) in environment e: the environment after it, what
\* it returns, and the exception it raises
Helped(e, out) ==
    LET s == Saved([e EXCEPT !.time_counter = @ + e.sims_per_step], out)
    IN  [e |-> s.e, out |-> out, err |-> s.err]
StepHelper(e) ==
    {Helped(e, StepOut(e, arrived, actionable, r)) :
        arrived \in SUBSET DOMAIN e._agents, actionable \in BOOLEAN,
        r \in Rewards}

\* the environment when the call of step raises err
Raised(e, err) == [e EXCEPT !.pc = "raised", !.err = err]

\* a call of _step_helper with actions a noted in the history of the call
Called(e, a, out) ==
    [e EXCEPT !.calls = Append(@, [rl_actions |-> a, out |-> out])]

InitRepeat ==
    /\ net = <<NewConn>>
    /\ sock = [e \in E |-> 1]
    /\ io = [e \in E |-> IoIdle]
    /\ log = <<>>
    /\ xfer = NoXfer
    /\ variant = "console"
    /\ ctl = [CtlInit EXCEPT !.pc = "off"]
    /\ sim = [SimInit EXCEPT !.pc = "off"]
    /\ pending = <<>>
    /\ entered_vehicles = <<>>
    /\ exited_vehicles = <<>>
    /\ sim_reset = FALSE
    /\ hist = <<>>
    /\ since = NoSince
    /\ \E repeat \in BOOLEAN, type \in RepeatTypes, count \in 0..MaxRepeat,
          agents \in AgentSets, sims \in 1..2, horizon \in 1..MaxHorizon,
          store \in BOOLEAN :
         env = [pc |-> "idle",
                _action_repeat |-> repeat,
                _action_repeat_type |-> type,
                _repeat_count |-> count,
                _agents |-> agents,
                sims_per_step |-> sims,
                warmup_steps |-> 0,
                horizon |-> horizon,
                store_transitions |-> store,
                transitions |-> "None",
                time_counter |-> 0,
                arg |-> <<>>,
                rl_actions |-> <<>>,
                done_all |-> FALSE,
                current_step |-> 0,
                total_reward |-> <<>>,
                out |-> NoOut,
                ret |-> NoOut,
                err |-> "none",
                calls |-> <<>>]

\* MultiEnv.step(rl_actions): without action repeat one _step_helper call;
\* with it the assertion and the choice of the helper, whose locals are set
step ==
    /\ env.pc \in {"idle", "returned", "raised"}
    /\ env.time_counter < MaxTime
    /\ \E a \in RlActions(DOMAIN env._agents) :
         LET f == [env EXCEPT !.arg = a, !.rl_actions = a, !.done_all = FALSE,
                              !.current_step = 0, !.total_reward = <<>>,
                              !.out = NoOut, !.ret = NoOut, !.err = "none",
                              !.calls = <<>>]
         IN
         IF ~env._action_repeat
         THEN \E h \in StepHelper(f) :
                env' = IF h.err # "none" THEN Raised(Called(h.e, a, h.out), h.err)
                       ELSE [Called(h.e, a, h.out) EXCEPT !.pc = "returned",
                                                          !.ret = h.out]
         ELSE IF Cardinality(DOMAIN env._agents) # 1
         THEN env' = Raised(f, "AssertionError")
         ELSE IF env._action_repeat_type = "last_action"
         THEN env' = [f EXCEPT !.pc = "last_action"]
         ELSE IF env._action_repeat_type \in {"extend_action", "ff"}
         THEN env' = IF \A k \in DOMAIN env._agents : env._agents[k] = Connector
                     THEN [f EXCEPT !.pc = env._action_repeat_type]
                     ELSE Raised(f, "AssertionError")
         ELSE env' = Raised(f, "NotImplementedError")
    /\ UNCHANGED <<net, sock, io, log, xfer, variant, ctl, sim, pending,
                   entered_vehicles, exited_vehicles, sim_reset, hist, since>>

\* the loop going on after a call that was done
Again_count == env.current_step < env._repeat_count
\* while (current_step < self._repeat_count) and not done_all
Again == env.current_step < env._repeat_count /\ ~env.done_all

\* the body of the loops after the call h of _step_helper with actions a
Looped(h, a) ==
    IF h.err # "none" THEN Raised(Called(h.e, a, h.out), h.err)
    ELSE [Called(h.e, a, h.out) EXCEPT
            !.rl_actions = a,
            !.out = h.out,
            !.total_reward = update_dict_using_dict(@, h.out.reward, Add),
            !.done_all = h.out.done["__all__"],
            !.current_step = @ + 1]

\* _action_repeat_helper, one pass of its loop
Repeat ==
    /\ env.pc = "last_action"
    /\ Again
    /\ \E h \in StepHelper(env) : env' = Looped(h, env.rl_actions)
    /\ UNCHANGED <<net, sock, io, log, xfer, variant, ctl, sim, pending,
                   entered_vehicles, exited_vehicles, sim_reset, hist, since>>

\* the actions of a pass of the extending helpers: EXTEND after the first
Extended ==
    IF env.current_step > 0 THEN update_all_dict_values(env.rl_actions, EXTEND)
    ELSE env.rl_actions

\* _extend_action_repeat_helper, one pass of its loop
ExtendRepeat ==
    /\ env.pc = "extend_action"
    /\ Again
    /\ \E h \in StepHelper(env) : env' = Looped(h, Extended)
    /\ UNCHANGED <<net, sock, io, log, xfer, variant, ctl, sim, pending,
                   entered_vehicles, exited_vehicles, sim_reset, hist, since>>

\* next(iter(states.values()))
FirstState(out) == out.states[CHOOSE k \in DOMAIN out.states : TRUE]

\* _fast_forward_action_repeat_helper, one call of its inner loop: the first
\* one of a pass of the outer loop (pc "ff"), or a further one (pc "ff_more")
FastForward ==
    /\ \/ env.pc = "ff" /\ Again
       \/ env.pc = "ff_more"
    /\ \E h \in StepHelper(env) :
         LET a == IF env.pc = "ff" THEN Extended ELSE env.rl_actions
             l == Looped(h, a)
         IN  env' =
               IF h.err # "none" THEN l
               ELSE IF FirstState(h.out).none
               THEN Raised([Called(h.e, a, h.out) EXCEPT !.rl_actions = a,
                                                        !.out = h.out],
                          "TypeError")
               ELSE IF FirstState(h.out).actionable \/ l.done_all
               THEN [l EXCEPT !.pc = "ff"]
               ELSE [l EXCEPT !.pc = "ff_more", !.current_step = env.current_step]
    /\ UNCHANGED <<net, sock, io, log, xfer, variant, ctl, sim, pending,
                   entered_vehicles, exited_vehicles, sim_reset, hist, since>>

\* return states, total_reward, done, infos: the locals of the last call,
\* which are not bound when the loop made no pass
Return ==
    /\ env.pc \in {"last_action", "extend_action", "ff"}
    /\ ~Again
    /\ env' = IF env.calls = <<>> THEN Raised(env, "UnboundLocalError")
              ELSE [env EXCEPT !.pc = "returned",
                               !.ret = [env.out EXCEPT
                                            !.reward = env.total_reward]]
    /\ UNCHANGED <<net, sock, io, log, xfer, variant, ctl, sim, pending,
                   entered_vehicles, exited_vehicles, sim_reset, hist, since>>

\* reset(): self.time_counter = 0; no warm-up steps
Reset ==
    /\ env.pc \in {"returned", "raised"}
    /\ env.time_counter > 0
    /\ env' = [env EXCEPT !.pc = "idle", !.time_counter = 0]
    /\ UNCHANGED <<net, sock, io, log, xfer, variant, ctl, sim, pending,
                   entered_vehicles, exited_vehicles, sim_reset, hist, since>>

NextRepeat ==
    \/ step
    \/ Repeat
    \/ ExtendRepeat
    \/ FastForward
    \/ Return
    \/ Reset

SpecRepeat == InitRepeat /\ [][NextRepeat]_vars

(***************************************************************************)
(* Properties of the string transfer (SpecStr, SpecStrFair).               *)
(***************************************************************************)
Snd == io[xfer.snd]
Rcv == io[xfer.rcv]

\* C4 (as claimed): for every string longer than PACKET_SIZE, sending it with
\* format 'str' and reading it with format 'str' gives back exactly that string,
\* whatever its characters and wherever the segment boundaries fall in its bytes.
C4_RoundTripLong ==
    (xfer.n > PACKET_SIZE /\ ~xfer.dropped) =>
        /\ Rcv.pc # "raised"
        /\ (Rcv.pc = "done" => Rcv.acc = xfer.s)

\* the frames of a transfer of n bytes: per segment, the segment, the
\* receiver's status probe, the sender's token and the receiver's acknowledgement
NumSegments(n) == (n + PACKET_SIZE - 1) \div PACKET_SIZE

ExpectedLog(snd, n) ==
    LET K == NumSegments(n) IN
    [i \in 1..(4 * K) |->
        LET j == (i + 3) \div 4
            r == i - 4 * (j - 1)
            size == IF j < K THEN PACKET_SIZE ELSE n - (K - 1) * PACKET_SIZE
        IN  IF r = 1 THEN [from |-> snd, tag |-> "segment", n |-> size,
                           val |-> IF size <= STATRESP_LEN
                                   THEN SubSeq(Encode(xfer.s), n - size + 1, n)
                                   ELSE <<>>]
            ELSE IF r = 2 THEN [from |-> Peer(snd), tag |-> "probe",
                                n |-> Len(STATRESP), val |-> STATRESP]
            ELSE IF r = 3 THEN [from |-> snd, tag |-> "token",
                                n |-> Len(TRANSFER_DONE),
                                val |-> IF j < K THEN TRANSFER_CONTINUE
                                        ELSE TRANSFER_DONE]
            ELSE [from |-> Peer(snd), tag |-> "tokenack",
                  n |-> Len(STATRESP), val |-> STATRESP]]

IsPrefix(s, t) == Len(s) <= Len(t) /\ s = SubSeq(t, 1, Len(s))

\* C5: a string of n > PACKET_SIZE bytes goes out as ceil(n / PACKET_SIZE)
\* segments in order, all of PACKET_SIZE bytes but the last (1..PACKET_SIZE);
\* each non-final segment is followed by an acknowledgement, TRANSFER_CONTINUE
\* and a second acknowledgement before the next segment, the final one by an
\* acknowledgement, TRANSFER_DONE and an acknowledgement; the receiver leaves
\* its loop exactly when the token it read is TRANSFER_DONE.
C5_SegmentProtocol ==
    (xfer.n > PACKET_SIZE /\ ~xfer.dropped) =>
        LET want == ExpectedLog(xfer.snd, xfer.n)
            k    == Len(log)
        IN  /\ IsPrefix(log, want)
            /\ (Snd.pc = "done" => log = want)
            /\ (Rcv.pc = "done" =>
                    /\ k >= 2
                    /\ log[k].tag = "tokenack"
                    /\ log[k - 1].val = TRANSFER_DONE)
            /\ (k >= 2 /\ log[k].tag = "tokenack" =>
                    Rcv.pc = IF log[k - 1].val = TRANSFER_DONE THEN "done"
                             ELSE "g_data")

C5_Witness ==
    /\ xfer.n > 2 * PACKET_SIZE
    /\ Snd.pc = "done"
    /\ Rcv.pc = "done"
    /\ Len(log) = 4 * NumSegments(xfer.n)

\* C10: when the connection drops in the middle of a segmented string
\* transfer, the reading get_formatted_message ends by raising (a socket error
\* whenever the text itself decodes); it never returns the part it has read.
C10_DropRaises ==
    [](xfer.dropped =>
        <>(/\ Rcv.pc = "raised"
           /\ (xfer.ascii => Rcv.err = "socket")))

C10_Witness ==
    /\ xfer.dropped
    /\ xfer.n > PACKET_SIZE
    /\ Rcv.pc = "raised"
    /\ Rcv.err = "socket"
    /\ Rcv.acc # <<>>
    /\ Len(Rcv.acc) < Len(xfer.s)

(***************************************************************************)
(* Properties of one formatted message (SpecMsg).                          *)
(***************************************************************************)
RECURSIVE Concat(_, _)
Concat(vals, n) == IF n = 0 THEN <<>> ELSE Concat(vals, n - 1) \o vals[n].s

\* C14 (as claimed): send_formatted_message with format 'str' and several
\* string values sends their concatenation in argument order as one string,
\* and get_formatted_message(conn, 'str') returns it.
C14_StrConcat ==
    (/\ xfer.fmt = FStr
     /\ Len(xfer.vals) > 1
     /\ \A i \in 1..Len(xfer.vals) : xfer.vals[i].t = "str")
        => /\ Snd.pc # "raised"
           /\ (xfer.res # Pending =>
                  xfer.res.v = VStr(Concat(xfer.vals, Len(xfer.vals))))

\* the keys of the dicts sent, and the last dict that has key
KeysSent == UNION {{xfer.vals[i].e[j].s : j \in 1..Len(xfer.vals[i].e)} :
                        i \in 1..Len(xfer.vals)}
Latest(key) ==
    LET has == {i \in 1..Len(xfer.vals) : HasKey(xfer.vals[i].e, key)}
    IN  xfer.vals[CHOOSE i \in has : \A j \in has : j <= i]

\* C15: with format 'dict' and several dicts the receiver gets one dict that
\* has every key of every input and no other, each with the value of the
\* latest dict in argument order that has the key.
C15_DictCombine ==
    (xfer.fmt = FDict /\ Len(xfer.vals) > 1) =>
        /\ Snd.pc # "raised"
        /\ Rcv.pc # "raised"
        /\ (xfer.res # Pending =>
              /\ xfer.res.v.t = "dict"
              /\ \A key \in KeysSent :
                    /\ HasKey(xfer.res.v.e, key)
                    /\ PyEq(Lookup(xfer.res.v.e, key),
                            AsJson(Lookup(Latest(key).e, key)))
              /\ \A i \in 1..Len(xfer.res.v.e) :
                    xfer.res.v.e[i].s \in KeysSent)

\* three dicts were sent, two of them with the key 'a' and two with 'b'
C15_Witness ==
    /\ xfer.fmt = FDict
    /\ Len(xfer.vals) = 3
    /\ xfer.res # Pending
    /\ Lookup(xfer.res.v.e, Key(97)) = VBool(TRUE)
    /\ Lookup(xfer.res.v.e, Key(98)) = VInt(2)

C17_StructRoundTrip ==
    (xfer.fmt.k = "struct" /\ xfer.res # Pending) =>
        xfer.res.v = VTuple(xfer.vals)

(***************************************************************************)
(* Properties of the command session (Spec).                               *)
(***************************************************************************)
\* the controller is inside _send_command
InCommand == ctl.pc \in {"ready", "ack", "send", "result", "str"}
\* the dispatcher is inside the branch of the command it read
Processing == sim.pc \in {"input", "str", "out"}

\* C1 (as claimed): every exchange is ready, opcode, ack, payload in this
\* order, one command at a time: the frames of the exchange under way are
\* always a prefix of that sequence, and a method without an output format
\* returns nothing.
C1_StrictExchange ==
    /\ IsPrefix(hist, Cycle)
    /\ (ctl.pc = "idle" /\ ctl.call.outf.k = "none") => ctl.ret = RetNone

\* C2 (as claimed): the two ends are in lock-step for every command of the
\* API: the dispatcher has a branch for the command the controller sent, that
\* branch reads the format the controller writes, neither end fails to decode
\* a frame, and the dispatcher is never left outside its protocol.
C2_LockStep ==
    /\ (Processing /\ ctl.pc \in {"ack", "send"}) =>
            /\ sim.command = ctl.call.op
            /\ Branch(variant, sim.command).known
            /\ sim.reads # <<>> => Head(sim.reads) = ctl.call.inf
    /\ (Processing /\ ctl.pc \in {"result", "str"}) =>
            LET outf == Branch(variant, sim.command).outf IN
            IF outf = FBitmap THEN ctl.call.outf.k = "struct"
            ELSE outf = ctl.call.outf
    /\ ctl.ret.k \notin {"struct.error", "ValueError", "UnicodeDecodeError"}
    /\ sim.err \notin {"struct.error", "ValueError", "UnicodeDecodeError"}

\* C3 (as claimed): after a command it has no branch for, the dispatcher has
\* not crashed: it is waiting for a command, processing a later one, or out
\* of the loop after one.
C3_UnknownOpcodeLive == sim.unknown => sim.pc # "crashed"

\* C6: a drain returns exactly the ids of the callbacks since the drain of
\* the same kind before it, in their order and once each, and outside the
\* drain branch itself the buffer holds exactly the callbacks since the last
\* drain, so it is empty right after one.
C6_DrainExact ==
    /\ (ctl.pc = "idle" /\ ctl.call.method \in {"get_entered_ids", "get_exited_ids"})
            => ctl.ret = [k |-> "list", v |-> since.last]
    /\ ~(Processing /\ sim.command = OpCode("VEH_GET_ENTERED_IDS"))
            => entered_vehicles = since.entered
    /\ ~(Processing /\ sim.command = OpCode("VEH_GET_EXITED_IDS"))
            => exited_vehicles = since.exited

\* a second drain has returned the two callbacks since the first
C6_Witness ==
    /\ ctl.pc = "idle"
    /\ ctl.call.method = "get_entered_ids"
    /\ ctl.ret = [k |-> "list", v |-> <<2, 1>>]
    /\ entered_vehicles = <<>>
    /\ since.entered = <<>>
    /\ sim.pc = "command"

\* the connections simulation_reset has closed: those the controller accepted
\* and closed, but for the one its process held when it ended
ResetClosed ==
    {i \in 1..Len(net) :
        /\ net[i].closed["ctl"]
        /\ net[i].acks = 1
        /\ ~(ctl.pc = "gone" /\ i = sock["ctl"])}

\* C7: simulation_reset closes the connection it sent the reset on and
\* returns only on a newly accepted one: every command is sent on a
\* connection the controller has accepted and not closed, and each reset has
\* closed one such connection.
C7_ResetReconnects ==
    /\ InCommand =>
            /\ ~Conn("ctl").closed["ctl"]
            /\ Conn("ctl").acks = 1
    /\ (ctl.pc = "idle" /\ ctl.call.method = "simulation_reset") =>
            /\ ctl.ret = RetNone
            /\ sock["ctl"] \notin ResetClosed
            /\ Conn("ctl").acks = 1
    /\ Cardinality(ResetClosed) = ctl.resets

\* a command has returned on the connection accepted by simulation_reset
C7_Witness ==
    /\ ctl.resets = 1
    /\ ctl.pc = "idle"
    /\ ctl.call.method = "get_vehicle_length"
    /\ ctl.ret.k \notin Errors \cup {NoRet.k}
    /\ ResetClosed # {}
    /\ sock["ctl"] \notin ResetClosed

\* the commands after which the loop of simulation_step is left
C8_Exiting == Ops({"SIMULATION_STEP", "SIMULATION_RESET", "SIMULATION_TERMINATE"})

\* C8: when the branch of a command has run to its end, the dispatcher has
\* sent a ready token and waits for the next command, unless the command is
\* step, reset or terminate: then nothing is sent and simulation_step has
\* returned 0.  (Once the controller has closed the connection the ready token
\* reaches nobody, or the send fails and the socket error ends the loop.)
C8_LoopExit ==
    [][(Processing /\ sim'.pc \notin {"input", "str", "out", "dict", "crashed"}) =>
            LET q == net'[sock["sim"]].rx["ctl"] IN
            IF sim.command \in C8_Exiting
            THEN /\ sim'.pc = "between"
                 /\ sim'.ret = 0
                 /\ q = Conn("sim").rx["ctl"]
            ELSE IF Conn("sim").closed["ctl"]
            THEN \/ sim'.pc = "command"
                 \/ sim'.pc = "between" /\ sim'.order = "cancel"
            ELSE /\ sim'.pc = "command"
                 /\ sim'.ret = NoValue
                 /\ q # <<>>
                 /\ q[Len(q)].tag = "ready"]_vars

\* the dispatcher is back at the wait after a command that is none of the three
C8_Witness ==
    /\ sim.pc = "command"
    /\ hist = <<"ready">>
    /\ ctl.pc = "idle"
    /\ ctl.call.method = "get_vehicle_leader"
    /\ ctl.ret.k = "int"

\* C9: commands are exchanged only after the handshake: the connection
\* accept_aimsun_connection returned began with RUN_API_ID and got exactly one
\* acknowledgement, a connection that began with anything else got none and
\* is never the command connection, and the script sends a ready token only
\* after it has read the acknowledgement.
C9_Handshake ==
    /\ (InCommand \/ ctl.pc = "idle") =>
            /\ Conn("ctl").hello = RUN_API_ID
            /\ Conn("ctl").acks = 1
    /\ \A i \in 1..Len(net) :
            /\ net[i].acks <= 1
            /\ net[i].acks = 1 => net[i].hello = RUN_API_ID
            /\ net[i].readied => net[i].acks = 1
    /\ sim.pc \in {"command", "input", "str", "out"} => sim.acked

\* a loader's connection was turned down and the script's was accepted
C9_Witness ==
    /\ \E i \in 1..Len(net) : net[i].hello = NETWORK_LOAD_ID /\ net[i].acks = 0
    /\ ctl.pc = "ready"
    /\ Conn("ctl").hello = RUN_API_ID
    /\ Conn("ctl").readied

\* C18 (as claimed): get_vehicle_leader and get_vehicle_follower return an
\* integer in every case, a negative one when there is no leader or follower.
C18_LeaderIsInt ==
    (ctl.pc = "idle" /\ ctl.call.method \in {"get_vehicle_leader",
                                          "get_vehicle_follower"})
        => ctl.ret.k = "int"

\* C20: a drain leaves the other buffer as it is, and no other command
\* changes either buffer: while simulation_step handles a command, the
\* entered buffer changes only in the VEH_GET_ENTERED_IDS branch and the exited
\* buffer only in the VEH_GET_EXITED_IDS branch.
C20_DrainFrame ==
    [][(sim.pc \in {"command", "input", "str", "out"}) =>
            /\ sim.command # OpCode("VEH_GET_ENTERED_IDS")
                    => entered_vehicles' = entered_vehicles
            /\ sim.command # OpCode("VEH_GET_EXITED_IDS")
                    => exited_vehicles' = exited_vehicles]_vars

\* the entered buffer was drained while the exited buffer held an id
C20_Witness ==
    /\ ctl.pc = "idle"
    /\ ctl.call.method = "get_entered_ids"
    /\ ctl.ret.k = "list"
    /\ ctl.ret.v # <<>>
    /\ entered_vehicles = <<>>
    /\ exited_vehicles # <<>>

\* C12 (as claimed): when the wait for a command ends on a broken connection,
\* recv raising a socket error or returning b'' after the controller closed,
\* simulation_step gives the cancel order and returns 0 without having run a
\* command, and no exception leaves it.
C12_BrokenTearsDown ==
    [][(sim.pc = "command" /\ Conn("sim").rx["sim"] = <<>> /\ sim' # sim) =>
            /\ sim'.pc = "between"
            /\ sim'.order = "cancel"
            /\ sim'.ret = 0
            /\ sim'.command = NoValue]_vars

\* what the controller has written on its connection and the peer not read yet
CtlWritten == Conn("ctl").rx["sim"]

\* C13: _send_command does not retry: a step of a command in which a socket
\* call fails (the connection was reset before a send, a reset is all there
\* is to read, or the transfer of a string raised) ends the method with the
\* error and writes nothing, and after the error the method writes nothing
\* more and returns no value.
C13_NoRetry ==
    [][/\ ( /\ ctl' # ctl
            /\ \/ ctl.pc = "ready" /\ Conn("ctl").rst["ctl"]
               \/ /\ ctl.pc = "ack"
                  /\ ctl.call.inf.k \notin {"str", "dict"}
                  /\ Conn("ctl").rst["ctl"]
               \/ /\ ctl.pc = "result"
                  /\ Conn("ctl").rx["ctl"] = <<>>
                  /\ Conn("ctl").rst["ctl"]
                  /\ ~Conn("ctl").fin["ctl"]
               \/ ctl.pc \in {"send", "str"} /\ io["ctl"].pc = "raised" )
          => /\ ctl'.pc = "raised"
             /\ ctl'.ret.k \in {"socket.error", "UnicodeDecodeError"}
             /\ ctl'.call = ctl.call
             /\ net'[sock["ctl"]].rx["sim"] = CtlWritten
       /\ ctl.pc = "raised"
          => /\ ctl'.pc \in {"raised", "gone"}
             /\ ctl'.ret = ctl.ret
             /\ Len(net'[sock["ctl"]].rx["sim"]) <= Len(CtlWritten)]_vars

\* a method has raised the socket error of a connection the script closed
C13_Witness ==
    /\ ctl.pc = "raised"
    /\ ctl.ret = RetErr("socket.error")
    /\ Conn("ctl").closed["sim"]
    /\ ctl.call.method = "get_entered_ids"

\* the list the get_entered_ids call that has just returned gave
JustGot ==
    IF /\ ctl.pc \in {"idle", "gone"}
       /\ ctl.call.method = "get_entered_ids"
       /\ ctl.ret.k = "list"
    THEN ctl.ret.v ELSE <<>>

\* C19: whenever no get_entered_ids call is under way, the lists the calls
\* have returned, one after the other, followed by the buffer are the ids of
\* all AAPIEnterVehicle callbacks in their order; a call with no callback
\* since the call before returns [].
C19_NothingLost ==
    (/\ ctl.pc \in {"idle", "gone", "raised"}
        \/ ctl.call.method # "get_entered_ids"
     /\ ~(Processing /\ sim.command = OpCode("VEH_GET_ENTERED_IDS"))
     /\ sim.pc \notin {"unloaded", "loading"})
        => since.got \o JustGot \o entered_vehicles = since.all

\* two calls have returned one id each, and nothing is buffered
C19_Witness ==
    /\ Len(since.got) = 1
    /\ Len(JustGot) = 1
    /\ entered_vehicles = <<>>
    /\ since.all = <<1, 2>>

\* C11 (as claimed): when the struct of a VEH_GET_STATIC, VEH_GET_DYNAMIC or
\* VEH_GET_ACC command has a report that is not 0, or a key asked for is not a
\* valid key, the branch does not raise: it sends {'report': -1} as the result
\* and the dispatcher goes on.
C11_TypedError ==
    sim.fault =>
        /\ sim.pc # "crashed"
        /\ (sim.pc = "out" /\ io["sim"].pc = "s_send" =>
                io["sim"].msg = Encode(Dumps(ErrorRecord)))

\* the tags of the frames endpoint e takes bytes of in this step: the frames
\* at the front of its stream that are gone or cut after it
TakenCount(q, q2) ==
    IF q2 = SubSeq(q, Len(q) - Len(q2) + 1, Len(q)) THEN Len(q) - Len(q2)
    ELSE Len(q) - Len(q2) + 1
TakenTags(e) ==
    LET q  == net[sock[e]].rx[e]
        q2 == net'[sock[e]].rx[e]
    IN  {q[i].tag : i \in 1..TakenCount(q, q2)}

\* C21 (as claimed): whatever the commands before, the unknown ones included,
\* the bytes simulation_step converts to a command are of a frame the
\* controller sent as a command, and the bytes _send_command reads as ready
\* and as acknowledgement are of a STATRESP sent as ready, respectively as
\* acknowledgement.
C21_FramesInPlace ==
    [][/\ (sim.pc = "command" /\ sim' # sim) => TakenTags("sim") \subseteq {"opcode"}
       /\ (ctl.pc = "ready" /\ ctl' # ctl) => TakenTags("ctl") \subseteq {"ready"}
       /\ (ctl.pc = "ack" /\ ctl' # ctl) => TakenTags("ctl") \subseteq {"ack"}]_vars

\* C22 (as claimed): on a connection that stays up, the transfer of any
\* string ends: send_formatted_message and get_formatted_message both
\* return, for the empty string and the exact multiples of PACKET_SIZE too.
C22_TransferEnds ==
    <>(xfer.dropped \/ (Snd.pc = "done" /\ Rcv.pc = "done"))

\* C23 (as claimed): the AAPIManage call Aimsun makes after a SIMULATION_RESET
\* was processed and before the replication restarts does nothing on the old
\* connection (no ready token sent, no command read) and returns 0.
C23_ExtraCallIgnored ==
    [][(sim.pc = "between" /\ sim.order = "rewind" /\ ~sim.extra /\ sim'.extra)
        => /\ net' = net
           /\ sim'.pc = "between"
           /\ sim'.order = "rewind"
           /\ sim'.ret = 0]_vars

(***************************************************************************)
(* Properties of the tracking-info call (SpecTrack).                       *)
(***************************************************************************)
\* C24 (as claimed): the parameter string is the vehicle id, ':', the 21 bits
\* of the bitmap and one bit for tracked; the branch decodes from it the id,
\* the bitmap and the tracked flag the caller passed, and queries the tracked
\* vehicle exactly when the caller passed tracked=True.
C24_TrackingDecoded ==
    /\ ctl.call.method = "get_vehicle_tracking_info" =>
            /\ Len(ctl.call.vals) = Len(IntStr(xfer.veh_id)) + NUM_ATTRS + 2
            /\ ParseInt(SubSeq(ctl.call.vals, 1, Len(IntStr(xfer.veh_id)))).val
                    = xfer.veh_id
            /\ ctl.call.vals[Len(IntStr(xfer.veh_id)) + 1] = 58
            /\ SubSeq(ctl.call.vals, Len(ctl.call.vals) - NUM_ATTRS,
                      Len(ctl.call.vals) - 1) = xfer.info_bitmap
            /\ (ctl.call.vals[Len(ctl.call.vals)] = 49) = xfer.tracked
    /\ xfer.query # "none" =>
            /\ xfer.read.veh_id = xfer.veh_id
            /\ xfer.read.info_bitmap = xfer.info_bitmap
            /\ (xfer.read.tracked = <<49>>) = xfer.tracked
            /\ (xfer.query = "AKIVehTrackedGetInf") = xfer.tracked

\* the index of the k-th bit set in a bitmap
KthSet(bm, k) ==
    CHOOSE i \in 1..Len(bm) :
        bm[i] = 49 /\ Cardinality({j \in 1..i : bm[j] = 49}) = k
\* one field per bit set: a float for the indices 0..12, an int for 13..20
FieldsFor(bm, fmt) ==
    /\ Len(fmt) = Cardinality({i \in 1..Len(bm) : bm[i] = 49})
    /\ \A k \in 1..Len(fmt) :
            fmt[k] = IF KthSet(bm, k) - 1 <= 12 THEN "f" ELSE "i"

\* C25 (as claimed): for a 21-character bitmap with a '1', the result format
\* the controller builds and the format the dispatcher builds have the same
\* fields, a float for each bit set among 0..12 and an int for each among
\* 13..20, and in the InfVeh returned the attribute of every bit set holds
\* that value of the simulator's tracking data, every other attribute None.
C25_TrackingResult ==
    /\ ctl.call.method = "get_vehicle_tracking_info" =>
            FieldsFor(xfer.info_bitmap, ctl.call.outf.f)
    /\ xfer.query # "none" =>
            /\ FieldsFor(xfer.info_bitmap, xfer.fmt)
            /\ xfer.fmt = ctl.call.outf.f
    /\ (ctl.pc = "idle" /\ ctl.call.method = "get_vehicle_tracking_info") =>
            /\ ctl.ret.k = "InfVeh"
            /\ \A i \in 1..NUM_ATTRS :
                    ctl.ret.v[i] = IF xfer.info_bitmap[i] = 49
                                   THEN <<xfer.data[i]>> ELSE <<>>


\* ---- Properties of the struct dictionaries ----

\* the key tuples of aimsun_struct, each with the requests made of its keys:
\* up to two keys in any order, a key twice, and all of them
KeyTuples == {keys_static_veh_info, keys_dynamic_veh_info, keys_acc_veh_info}
KeyLists(valid_keys) ==
    {<<>>, valid_keys}
        \cup {<<k>> : k \in Range(valid_keys)}
        \cup {<<k, l>> : k, l \in Range(valid_keys)}

\* d is a dictionary of exactly the keys given, each with the struct's value
DictOf(d, struct, keys) ==
    /\ d.t = "dict"
    /\ {d.e[i].s : i \in 1..Len(d.e)} = Range(keys)
    /\ Len(d.e) = Cardinality(Range(keys))
    /\ \A k \in Range(keys) : Lookup(d.e, k) = Lookup(struct.e, k)

\* the request the dispatcher is answering names no keys
NoKeysAsked ==
    /\ ctl.call \in DictCalls
    /\ sim.command = ctl.call.op
    /\ ~Truthy(Wanted(ctl.call.vals))

\* C26 (as claimed): to_dict on a struct with report 0 and keys that are all
\* valid returns a dictionary of exactly these keys with the struct's
\* attributes as values; and for a request whose 'keys' is empty or null the
\* dispatcher takes the whole tuple of valid keys, so that what it sends is
\* the dictionary of exactly the valid keys.
C26_DictOfKeys ==
    /\ \A vk \in KeyTuples : \A keys \in KeyLists(vk) :
         LET out == to_dict(InfoStruct(vk, 0), vk, keys) IN
         out.err = "none" /\ DictOf(out.val, InfoStruct(vk, 0), keys)
    /\ (NoKeysAsked /\ ~sim.fault) =>
         /\ ~(sim.pc = "crashed" /\ sim.err = "AttributeError")
         /\ (sim.pc = "out" /\ io["sim"].pc = "s_send") =>
               LET vk == ValidKeys(sim.command) IN
               /\ Loads(Decode(io["sim"].msg).text).ok
               /\ DictOf(Loads(Decode(io["sim"].msg).text).val,
                         InfoStruct(vk, 0), vk)


\* ---- Properties of the action repeat (SpecRepeat) ----

\* a call of step with action repeat of type 'last_action' has ended
LastActionEnded ==
    /\ env.pc \in {"returned", "raised"}
    /\ env._action_repeat
    /\ env._action_repeat_type = "last_action"

\* the calls of _step_helper whose done['__all__'] is True
DoneCalls == {i \in 1..Len(env.calls) : env.calls[i].out.done["__all__"]}
\* as many calls as repeat_count, or as the index of the first call done
CountAsClaimed ==
    IF DoneCalls = {} THEN Len(env.calls) = env._repeat_count
    ELSE LET k == CHOOSE i \in DoneCalls : \A j \in DoneCalls : i <= j
         IN  Len(env.calls) = IF env._repeat_count < k THEN env._repeat_count
                              ELSE k

\* the sum of the rewards of agent k in the first n calls
RECURSIVE RewardSum(_, _)
RewardSum(k, n) ==
    IF n = 0 THEN 0 ELSE RewardSum(k, n - 1) + env.calls[n].out.reward[k]

\* step returned what the claim says of the calls made
ReturnedAsClaimed ==
    /\ env.pc = "returned"
    /\ CountAsClaimed
    /\ \A i \in 1..Len(env.calls) : env.calls[i].rl_actions = env.arg
    /\ env.ret.reward =
            [k \in DOMAIN env._agents |-> RewardSum(k, Len(env.calls))]
    /\ env.ret.states = env.calls[Len(env.calls)].out.states
    /\ env.ret.done = env.calls[Len(env.calls)].out.done
    /\ env.ret.infos = env.calls[Len(env.calls)].out.infos

====
